---------------------------- MODULE Spec2Model ----------------------------
(***************************************************************************)
(* Prediction pipeline of the stock recommendation backend:                *)
(*   - the ensemble voter         (PredictionService._ensemble_voting)     *)
(*   - the three feature assemblers (_prepare_model_N_features)            *)
(*   - the model registry         (ModelLoader.load_models / health_check) *)
(*   - the orchestrator           (PredictionService.predict_stock)        *)
(*                                                                         *)
(* Numbers.  A confidence is a rational [n, d] (n/d).  The blended         *)
(* confidence the voter returns is an integer number of hundredths, as     *)
(* round(x, 2) produces.  Python rounds the binary float, so a value that  *)
(* lies exactly halfway between two hundredths goes to either neighbour    *)
(* depending on its binary representation; such a tie is modelled as the   *)
(* choice between both neighbours.                                         *)
(***************************************************************************)
EXTENDS Integers, Sequences, FiniteSets, TLC

\* a nullable value is <<>> (None) or <<v>> (the number v)
Null == <<>>
Some(v) == <<v>>

(***************************************************************************)
(* Bounds of the model.                                                    *)
(***************************************************************************)
\* per-model confidences are drawn from the grid 0/ConfDen .. ConfDen/ConfDen
ConfDen == 10
\* a present, non-zero field i of an input record holds the value i * FeatUnit
FeatUnit == 1
\* predict_stock is not called once the predictions table holds this many rows
MaxPredictions == 1
\* the same limit for the history specification
MaxRecords == 2
\* no stock-management call starts once this many calls were started
MaxCalls == 3
\* the largest number of features of a model handed to the explainer
MaxFeatures == 4
\* the largest finite magnitude of the model's floats (sys.float_info.max scaled
\* down); a stored fundamental is at most Huge in magnitude
FloatMax == 100
Huge == 30
\* a square root that is not rational is rounded down to a multiple of 1/RootDen
RootDen == 10

VARIABLES
    vote_in,      \* arguments of the _ensemble_voting call under study
    vote_out,     \* its return value, NoCall before the call
    feat_in,      \* [model, obj]: the record handed to a feature assembler
    feat_out,     \* [features, feature_names, feature_dict], NoCall before
    ratio_in,     \* the stock handed to the ratio calculator
    ratio_out,    \* the ratios it built or the exception it raised, NoCall before
    explain_in,   \* the explainer entry point under study and its arguments
    explain_out,  \* what the entry point returned or raised, NoCall before
    models,       \* ModelLoader.models: registry key -> loaded entry
    last_load,    \* outcome of the latest load_models call, NoCall before
    health_resp,  \* latest answer of GET /predict/health, NoCall before
    stocks,       \* table stocks: primary key -> row
    ratios,       \* table stock_ratios: primary key -> row
    predictions,  \* table predictions, in insertion order
    last_predict, \* outcome and trace of the latest predict_stock call
    last_read,    \* outcome and trace of the latest history or detail request
    id_seq,       \* the last primary key handed out for stocks and for stock_ratios
    calls,        \* stock-management calls in progress: process -> position and locals
    calls_started,\* number of stock-management calls started so far
    stock_resp,   \* result and trace of the latest stock-management call that ended
    users,        \* table users: primary key -> row
    sessions,     \* table sessions: session id -> row
    now,          \* the day datetime.now gives
    auth_log,     \* what has happened to sessions and users so far
    last_auth     \* outcome of the validate_session call that just returned, else NoCall

voteVars == <<vote_in, vote_out>>
featVars == <<feat_in, feat_out>>
ratioVars == <<ratio_in, ratio_out>>
explainVars == <<explain_in, explain_out>>
pureVars == <<vote_in, vote_out, feat_in, feat_out, ratio_in, ratio_out,
              explain_in, explain_out>>
stockVars == <<id_seq, calls, calls_started, stock_resp>>
authVars == <<users, sessions, now, auth_log, last_auth>>
serviceVars == <<models, last_load, health_resp, stocks, ratios, predictions,
                 last_predict, last_read, id_seq, calls, calls_started, stock_resp>>
vars == <<vote_in, vote_out, feat_in, feat_out, ratio_in, ratio_out,
          explain_in, explain_out, models, last_load, health_resp, stocks, ratios, predictions, last_predict,
          last_read, id_seq, calls, calls_started, stock_resp,
          users, sessions, now, auth_log, last_auth>>

NoCall == [tag |-> "NoCall"]

(***************************************************************************)
(* Ensemble voter: prediction_service.py, _ensemble_voting                 *)
(***************************************************************************)
\* dict.get(key, 0) on the valuation rubric
val_score_fair_zero(val_pred) ==
    CASE val_pred = "undervalued" -> 1
      [] val_pred = "fair"        -> 0
      [] val_pred = "overvalued"  -> -1
      [] OTHER                    -> 0

val_score(val_pred) ==
    CASE val_pred = "undervalued" -> 1
      [] val_pred = "fair"        -> -1
      [] val_pred = "overvalued"  -> -1
      [] OTHER                    -> 0

health_score(health_pred) ==
    CASE health_pred = "excellent" -> 1
      [] health_pred = "fair"      -> 0
      [] health_pred = "poor"      -> -1
      [] OTHER                     -> 0

growth_score(growth_pred) ==
    CASE growth_pred = "strong_growth"   -> 1
      [] growth_pred = "moderate_growth" -> 1
      [] growth_pred = "weak_growth"     -> 0
      [] growth_pred = "declining"       -> -1
      [] OTHER                           -> 0

total_score(val_pred, health_pred, growth_pred) ==
    val_score(val_pred) + health_score(health_pred) + growth_score(growth_pred)

Abs(x) == IF x < 0 THEN -x ELSE x
Min(a, b) == IF a <= b THEN a ELSE b
RangeOf(seq) == {seq[i] : i \in 1..Len(seq)}
IndexOf(seq, x) == CHOOSE i \in 1..Len(seq) : seq[i] = x

recommendation_of(total) ==
    IF total >= 2 THEN "BUY" ELSE IF total <= -2 THEN "SELL" ELSE "HOLD"

\* the BUY branch written as 0.85 + total * 0.05
ensemble_confidence_no_offset(total) ==
    Min(IF total >= 2 THEN 85 + total * 5
        ELSE IF total <= -2 THEN 85 + Abs(total + 2) * 5
        ELSE 75 + Abs(total) * 5,
        95)

\* ensemble agreement confidence in hundredths, capped at 0.95
ensemble_confidence(total) ==
    Min(IF total >= 2 THEN 85 + (total - 2) * 5
        ELSE IF total <= -2 THEN 85 + Abs(total + 2) * 5
        ELSE 75 + Abs(total) * 5,
        95)

\* (ensemble_confidence + (val_conf + health_conf + growth_conf) / 3) / 2 in
\* hundredths, as the exact fraction [num, den]
final_confidence_exact(ens, vc, hc, gc) ==
    LET N == vc.n * hc.d * gc.d + hc.n * vc.d * gc.d + gc.n * vc.d * hc.d
        D == vc.d * hc.d * gc.d
    IN  [num |-> ens * 3 * D + 100 * N, den |-> 6 * D]

\* round(x, 2) truncating instead of rounding
round2_truncating(x) == { x.num \div x.den }

\* round(x, 2): the hundredths a float round can return for the exact value x
round2(x) ==
    LET q == x.num \div x.den
        r == x.num % x.den
    IN  IF 2 * r < x.den THEN {q}
        ELSE IF 2 * r > x.den THEN {q + 1}
        ELSE {q, q + 1}

\* the results _ensemble_voting can return for its six arguments
_ensemble_voting(val_pred, health_pred, growth_pred, val_conf, health_conf, growth_conf) ==
    LET total == total_score(val_pred, health_pred, growth_pred)
        exact == final_confidence_exact(ensemble_confidence(total),
                                        val_conf, health_conf, growth_conf)
    IN  { [recommendation |-> recommendation_of(total), confidence |-> c] :
            c \in round2(exact) }

(***************************************************************************)
(* Floats.  A float is the exact fraction [n, d] with d > 0 in lowest      *)
(* terms, or an infinity [n, d] with d = 0 and n the sign.  As in CPython, *)
(* + - * / return an infinity when the result exceeds the largest finite   *)
(* float, while ** raises OverflowError.                                   *)
(***************************************************************************)
RECURSIVE Gcd(_, _)
Gcd(a, b) == IF b = 0 THEN a ELSE Gcd(b, a % b)

Rat(n, d) ==
    LET g == Gcd(Abs(n), Abs(d))
        sgn == IF d < 0 THEN -1 ELSE 1
    IN  IF n = 0 THEN [n |-> 0, d |-> 1]
        ELSE [n |-> sgn * (n \div g), d |-> sgn * (d \div g)]

FromInt(i) == [n |-> i, d |-> 1]
Zero == FromInt(0)
Inf(sign) == [n |-> sign, d |-> 0]
IsInf(x) == x.d = 0
IsZero(x) == x.n = 0 /\ x.d # 0
Sign(i) == IF i < 0 THEN -1 ELSE IF i > 0 THEN 1 ELSE 0

\* the float nearest to the exact result n/d: an infinity beyond FloatMax
to_float(n, d) ==
    IF Abs(n) > FloatMax * Abs(d) THEN Inf(Sign(n) * Sign(d)) ELSE Rat(n, d)

Lcm(a, b) == (a \div Gcd(a, b)) * b

fadd(x, y) ==
    IF IsInf(x) THEN x
    ELSE IF IsInf(y) THEN y
    ELSE LET l == Lcm(x.d, y.d)
         IN  to_float(x.n * (l \div x.d) + y.n * (l \div y.d), l)

fneg(x) == [n |-> -x.n, d |-> x.d]
fsub(x, y) == fadd(x, fneg(y))

\* x / y for y # 0
fdiv(x, y) ==
    IF IsInf(x) THEN Inf(x.n * Sign(y.n))
    ELSE IF IsInf(y) THEN Zero
    ELSE to_float(x.n * y.d, x.d * y.n)

fge0(x) == x.n >= 0
fgt0(x) == x.n > 0

\* what a block of the calculator ends with: a value, or OverflowError raised
Value(v) == [raised |-> FALSE, value |-> v]
OverflowError == [raised |-> TRUE, value |-> Null]

\* what the calculator ends with when the block computing `name` raises
RaisedAt(name) == [tag |-> "OverflowError", at |-> name]
IsRaise(result) == "tag" \in DOMAIN result

\* x ** 2: float.__pow__ raises OverflowError when a finite x squares beyond
\* the largest float
fsquare(x) ==
    IF IsInf(x) THEN Value(Inf(1))
    ELSE IF x.n * x.n > FloatMax * x.d * x.d THEN OverflowError
    ELSE Value(Rat(x.n * x.n, x.d * x.d))

RECURSIVE isqrt_from(_, _)
isqrt_from(m, r) == IF (r + 1) * (r + 1) > m THEN r ELSE isqrt_from(m, r + 1)

\* the largest r with r * r <= m
isqrt(m) == isqrt_from(m, 0)

IsSquare(m) == isqrt(m) * isqrt(m) = m

\* math.sqrt(x) and pow(x, 1 / 2) for x >= 0
fsqrt(x) ==
    IF IsInf(x) THEN x
    ELSE IF IsSquare(x.n) /\ IsSquare(x.d) THEN Rat(isqrt(x.n), isqrt(x.d))
    ELSE Rat(isqrt((x.n * RootDen * RootDen) \div x.d), RootDen)

(***************************************************************************)
(* Feature assemblers: prediction_service.py, _prepare_model_N_features    *)
(***************************************************************************)
model_1_feature_names_swapped ==
    <<"pe_ratio", "pb_ratio", "debt_equity", "roe", "profit_margin">>

model_1_feature_names ==
    <<"pe_ratio", "pb_ratio", "roe", "debt_equity", "profit_margin">>

model_2_feature_names ==
    <<"revenue_growth_1y", "ebitda_growth_1y", "equity_growth",
      "debt_trend", "cash_trend", "working_capital_trend",
      "leverage_change", "debt_to_equity_2025">>

model_3_feature_names ==
    <<"revenue_cagr_2y", "ebitda_cagr_2y", "book_value_cagr_2y",
      "revenue_volatility", "ebitda_volatility", "revenue_acceleration",
      "ebitda_acceleration", "capex_trend", "working_capital_trend_2y">>

\* getattr(obj, name, 0.0) or 0.0: an absent attribute, None and 0 all give 0.0
getattr_or_zero(obj, name) ==
    LET value == IF name \in DOMAIN obj THEN obj[name] ELSE Some(Zero)
    IN  IF value = Null THEN Zero ELSE IF IsZero(value[1]) THEN Zero ELSE value[1]

\* the loop of an assembler over its name list
prepare_features(obj, feature_names) ==
    [features      |-> [i \in 1..Len(feature_names) |->
                            getattr_or_zero(obj, feature_names[i])],
     feature_names |-> feature_names,
     feature_dict  |-> [name \in {feature_names[i] : i \in 1..Len(feature_names)} |->
                            getattr_or_zero(obj, name)]]

_prepare_model_1_features(stock) == prepare_features(stock, model_1_feature_names)
_prepare_model_2_features(ratio_row) == prepare_features(ratio_row, model_2_feature_names)
_prepare_model_3_features(ratio_row) == prepare_features(ratio_row, model_3_feature_names)

(***************************************************************************)
(* Model registry: model_loader.py                                         *)
(***************************************************************************)
ModelKeys == <<"model_1", "model_2", "model_3">>

\* what load_models stores under a key: the artifacts of folder AI_models/<key>
\* (encoder, transformer, estimator), the family tag and the declared classes
ModelEntry(key) ==
    CASE key = "model_1" ->
            [artifact |-> "model_1", type |-> "xgboost",
             classes |-> <<"UNDERVALUED", "FAIR", "OVERVALUED">>]
      [] key = "model_2" ->
            [artifact |-> "model_2", type |-> "random_forest",
             classes |-> <<"EXCELLENT", "FAIR", "POOR">>]
      [] OTHER ->
            [artifact |-> "model_3", type |-> "svm",
             classes |-> <<"STRONG_GROWTH", "MODERATE_GROWTH", "WEAK_GROWTH", "DECLINING">>]

\* the file system a load_models call finds: does AI_models exist, and for each
\* model folder: "missing", "unreadable" (it exists and a joblib.load of one of
\* its files raises) or "ok"
FsStates ==
    [base : BOOLEAN,
     folder : [RangeOf(ModelKeys) -> {"missing", "unreadable", "ok"}]]

\* the body of the try block from model i on: a missing folder returns False, a
\* joblib.load that raises is caught and returns False, the entry is assigned
\* only after all its files are loaded
RECURSIVE load_models_from(_, _, _, _)
load_models_from(reg, fs, i, loaded) ==
    IF i > Len(ModelKeys)
    THEN [models |-> reg, result |-> TRUE, loaded |-> loaded, failed_at |-> "none"]
    ELSE LET key == ModelKeys[i]
         IN  IF fs.folder[key] = "missing" \/ fs.folder[key] = "unreadable"
             THEN [models |-> reg, result |-> FALSE, loaded |-> loaded, failed_at |-> key]
             ELSE load_models_from(
                      [k \in DOMAIN reg \cup {key} |->
                          IF k = key THEN ModelEntry(key) ELSE reg[k]],
                      fs, i + 1, loaded \cup {key})

load_models(reg, fs) ==
    IF ~fs.base
    THEN [models |-> reg, result |-> FALSE, loaded |-> {}, failed_at |-> "AI_models"]
    ELSE load_models_from(reg, fs, 1, {})

NoModel == [tag |-> "None"]

\* a lookup that falls back to some loaded entry when the key is missing
get_model_substituting(reg, model_key) ==
    IF model_key \in DOMAIN reg THEN reg[model_key]
    ELSE IF DOMAIN reg # {} THEN reg[CHOOSE k \in DOMAIN reg : TRUE]
    ELSE NoModel

\* self.models.get(model_key)
get_model(reg, model_key) ==
    IF model_key \in DOMAIN reg THEN reg[model_key] ELSE NoModel

\* any(...) in place of all(...)
health_check_any(reg) == \E key \in RangeOf(ModelKeys) : key \in DOMAIN reg

\* all(key in self.models for key in ['model_1', 'model_2', 'model_3'])
health_check(reg) == \A key \in RangeOf(ModelKeys) : key \in DOMAIN reg

(***************************************************************************)
(* Repositories: stock_repository.py, prediction_repository.py             *)
(***************************************************************************)
NoRow == [tag |-> "None"]

\* str.upper() on the tickers of the model
Upper(ticker) ==
    CASE ticker = "abc" -> "ABC"
      [] ticker = "Abc" -> "ABC"
      [] ticker = "xyz" -> "XYZ"
      [] OTHER          -> ticker

\* the row of a table (primary key -> row) that a where clause selects
\* (scalar_one_or_none), NoRow when there is none
one_or_none(tbl, found) ==
    IF found = {} THEN NoRow ELSE tbl[CHOOSE i \in found : TRUE]

\* select(Stock).where(Stock.ticker == ticker.upper())
get_stock_by_ticker(tbl, ticker) ==
    one_or_none(tbl, { i \in DOMAIN tbl : tbl[i].ticker = Upper(ticker) })

\* select(StockRatio).where(StockRatio.stock_id == stock_id)
get_stock_ratios(tbl, stock_id) ==
    one_or_none(tbl, { i \in DOMAIN tbl : tbl[i].stock_id = stock_id })

\* the row create_prediction inserts: the next id and the given columns
new_prediction(tbl, prediction_data) ==
    [id |-> Len(tbl) + 1] @@ prediction_data

\* an insert that replaces the user's earlier row for the same ticker
insert_rows_upsert(tbl, rows) ==
    IF rows = <<>> THEN tbl
    ELSE LET same == { i \in 1..Len(tbl) : /\ tbl[i].user_id = rows[1].user_id
                                            /\ tbl[i].ticker = rows[1].ticker }
         IN  IF same = {} THEN tbl \o rows
             ELSE [i \in 1..Len(tbl) |->
                      IF i \in same THEN [rows[1] EXCEPT !.id = i] ELSE tbl[i]]

\* self.db.add(prediction); commit: the committed rows are added to the table
insert_rows(tbl, rows) == tbl \o rows

\* select(Prediction).where(Prediction.id == prediction_id)
repo_get_prediction_by_id(tbl, prediction_id) ==
    IF prediction_id \in 1..Len(tbl) THEN tbl[prediction_id] ELSE NoRow

RECURSIVE rows_of_user_newest_first(_, _, _)
rows_of_user_newest_first(tbl, user_id, i) ==
    IF i = 0 THEN <<>>
    ELSE (IF tbl[i].user_id = user_id THEN <<tbl[i]>> ELSE <<>>)
         \o rows_of_user_newest_first(tbl, user_id, i - 1)

\* select(Prediction).where(user_id == ...).order_by(desc(created_at))
\*     .offset(skip).limit(limit); rows are created in the order of their ids
repo_get_user_predictions(tbl, user_id, skip, limit) ==
    LET mine == rows_of_user_newest_first(tbl, user_id, Len(tbl))
    IN  SubSeq(mine, skip + 1, Min(Len(mine), skip + limit))

\* the count of the rows of every user
get_prediction_count_of_all(tbl, user_id) == Len(tbl)

\* select(func.count(Prediction.id)).where(user_id == ...)
get_user_prediction_count(tbl, user_id) ==
    Cardinality({ i \in 1..Len(tbl) : tbl[i].user_id = user_id })

(***************************************************************************)
(* Orchestrator: prediction_service.py, predict_stock                      *)
(*                                                                         *)
(* A stage is a pair <<name, model key>> (the key is "" outside            *)
(* _run_model_prediction).  The input `fail` names the stage at which the  *)
(* environment raises (a database error, a numpy or estimator error), or   *)
(* NoFailure.  An outcome carries what the call did: the stages it         *)
(* entered, the artifact it used for each model slot, the row it           *)
(* committed.                                                              *)
(***************************************************************************)
Stage(name) == <<name, "">>
NoFailure == <<"none", "">>

\* stages at which an exception can come from outside the orchestrator's code
FailureStages ==
    { Stage("stock_lookup"), Stage("ratio_lookup"), Stage("features"),
      Stage("voting"), Stage("reasoning"), Stage("commit"), Stage("refresh"),
      Stage("response") }
    \cup { <<name, key>> : name \in {"inference", "explanation"},
                           key \in RangeOf(ModelKeys) }

NoData == [tag |-> "None"]

Outcome(kind, status_code, error, raised_at, stages, used, data, saved) ==
    [kind |-> kind, status_code |-> status_code, error |-> error,
     raised_at |-> raised_at, stages |-> stages, used |-> used,
     data |-> data, saved |-> saved]

Returned(status_code, error, stages, used, data, saved) ==
    Outcome("return", status_code, error, NoFailure, stages, used, data, saved)

Raised(error, stages, used, saved) ==
    Outcome("raise", 0, error, stages[Len(stages)], stages, used, NoData, saved)

\* confidence = 0.85 when the estimator has no predict_proba
fallback_confidence == [n |-> 85, d |-> 100]

\* the class index the estimator predicts: its first or its last class
prediction_idx(model_data, pick) ==
    IF pick = "first" THEN 0 ELSE Len(model_data.classes) - 1

\* _run_model_prediction for one key on the assembled vector; proba is Null
\* when the estimator has no predict_proba, else the probability of the
\* predicted class
_run_model_prediction(reg, model_key, features, pick, proba, fail) ==
    LET model_data == get_model(reg, model_key)
        s1 == <<<<"get_model", model_key>>>>
        s2 == Append(s1, <<"inference", model_key>>)
        s3 == Append(s2, <<"explanation", model_key>>)
    IN  IF model_data = NoModel
        THEN [kind |-> "raise", error |-> <<"Model not loaded", model_key>>,
              stages |-> s1, used |-> <<>>]
        ELSE LET used == <<[slot |-> model_key, artifact |-> model_data.artifact,
                            features |-> features]>>
             IN  IF fail = <<"inference", model_key>>
                 THEN [kind |-> "raise", error |-> <<"error", "inference">>,
                       stages |-> s2, used |-> used]
                 ELSE IF fail = <<"explanation", model_key>>
                 THEN [kind |-> "raise", error |-> <<"error", "explanation">>,
                       stages |-> s3, used |-> used]
                 ELSE [kind |-> "ok", stages |-> s3, used |-> used,
                       prediction |->
                           model_data.classes[prediction_idx(model_data, pick) + 1],
                       confidence |->
                           IF proba = Null THEN fallback_confidence ELSE proba[1]]

\* step 4: the three models in order, stopping at the first exception
RECURSIVE run_models(_, _, _, _, _, _)
run_models(reg, features, inference, fail, i, acc) ==
    IF i > Len(ModelKeys) THEN acc
    ELSE LET r == _run_model_prediction(reg, ModelKeys[i], features[i],
                                        inference.pick[i], inference.proba[i], fail)
             stages == acc.stages \o r.stages
             used == acc.used \o r.used
         IN  IF r.kind = "raise"
             THEN [kind |-> "raise", error |-> r.error, stages |-> stages,
                   used |-> used, results |-> acc.results]
             ELSE run_models(reg, features, inference, fail, i + 1,
                             [kind |-> "ok", error |-> <<>>, stages |-> stages,
                              used |-> used,
                              results |-> Append(acc.results,
                                                 [prediction |-> r.prediction,
                                                  confidence |-> r.confidence])])

\* the ratios-absent check left out
ratios_missing_unchecked(ratio_row) == FALSE

\* if not ratios
ratios_missing(ratio_row) == ratio_row = NoRow

\* steps 5 to 9 for one result of the vote
vote_save_respond(preds, stock, user_id, results, vote, fail, st, used) ==
    LET prediction_data ==
            [user_id |-> user_id, stock_id |-> stock.id, ticker |-> stock.ticker,
             model_1_prediction |-> results[1].prediction,
             model_1_confidence |-> results[1].confidence,
             model_2_prediction |-> results[2].prediction,
             model_2_confidence |-> results[2].confidence,
             model_3_prediction |-> results[3].prediction,
             model_3_confidence |-> results[3].confidence,
             final_recommendation |-> vote.recommendation,
             final_confidence |-> vote.confidence]
        saved_prediction == new_prediction(preds, prediction_data)
        s6 == Append(st, Stage("reasoning"))
        s8 == Append(s6, Stage("commit"))
        s8r == Append(s8, Stage("refresh"))
        s9 == Append(s8r, Stage("response"))
    IN  IF fail = Stage("reasoning") THEN Raised(<<"error", "reasoning">>, s6, used, <<>>)
        ELSE IF fail = Stage("commit") THEN Raised(<<"error", "commit">>, s8, used, <<>>)
        ELSE IF fail = Stage("refresh")
        THEN Raised(<<"error", "refresh">>, s8r, used, <<saved_prediction>>)
        ELSE IF fail = Stage("response")
        THEN Raised(<<"error", "response">>, s9, used, <<saved_prediction>>)
        ELSE Returned(200, <<>>, s9, used,
                      [model_1_valuation |-> results[1],
                       model_2_health |-> results[2],
                       model_3_growth |-> results[3],
                       ensemble_prediction |->
                           [final_recommendation |-> vote.recommendation,
                            confidence |-> vote.confidence],
                       prediction_id |-> saved_prediction.id],
                      <<saved_prediction>>)

\* the try block of predict_stock: the outcomes it can end with
predict_stock_body(stock_tbl, ratio_tbl, preds, reg, ticker, user_id, inference, fail) ==
    LET stock == get_stock_by_ticker(stock_tbl, ticker)
        ratio_row == get_stock_ratios(ratio_tbl, stock.id)
        features == <<_prepare_model_1_features(stock).features,
                      _prepare_model_2_features(ratio_row).features,
                      _prepare_model_3_features(ratio_row).features>>
        s1 == <<Stage("stock_lookup")>>
        s2 == Append(s1, Stage("ratio_lookup"))
        s3 == Append(s2, Stage("features"))
    IN  IF fail = Stage("stock_lookup")
        THEN {Raised(<<"error", "stock_lookup">>, s1, <<>>, <<>>)}
        ELSE IF stock = NoRow
        THEN {Returned(404, <<"Stock not found", ticker>>, s1, <<>>, NoData, <<>>)}
        ELSE IF fail = Stage("ratio_lookup")
        THEN {Raised(<<"error", "ratio_lookup">>, s2, <<>>, <<>>)}
        ELSE IF ratios_missing(ratio_row)
        THEN {Returned(400, <<"Stock ratios not calculated">>, s2, <<>>, NoData, <<>>)}
        ELSE IF fail = Stage("features")
        THEN {Raised(<<"error", "features">>, s3, <<>>, <<>>)}
        ELSE
          LET m == run_models(reg, features, inference, fail, 1,
                              [kind |-> "ok", error |-> <<>>, stages |-> s3,
                               used |-> <<>>, results |-> <<>>])
              s5 == Append(m.stages, Stage("voting"))
          IN  IF m.kind = "raise"
              THEN {Raised(m.error, m.stages, m.used, <<>>)}
              ELSE IF fail = Stage("voting")
              THEN {Raised(<<"error", "voting">>, s5, m.used, <<>>)}
              ELSE { vote_save_respond(preds, stock, user_id, m.results, vote, fail,
                                       s5, m.used) :
                       vote \in _ensemble_voting(
                           m.results[1].prediction, m.results[2].prediction,
                           m.results[3].prediction, m.results[1].confidence,
                           m.results[2].confidence, m.results[3].confidence) }

\* a handler that lets database errors through
catch_exception_not_db(outcome) ==
    IF outcome.kind = "raise"
       /\ outcome.raised_at[1] \notin {"stock_lookup", "ratio_lookup", "commit", "refresh"}
    THEN [outcome EXCEPT !.kind = "return", !.status_code = 500,
                         !.error = <<"Prediction error">> \o outcome.error]
    ELSE outcome

\* except Exception as e: return {"status_code": 500, "error": ...}
catch_exception(outcome) ==
    IF outcome.kind = "raise"
    THEN [outcome EXCEPT !.kind = "return", !.status_code = 500,
                         !.error = <<"Prediction error">> \o outcome.error]
    ELSE outcome

predict_stock(stock_tbl, ratio_tbl, preds, reg, ticker, user_id, inference, fail) ==
    { catch_exception(outcome) :
        outcome \in predict_stock_body(stock_tbl, ratio_tbl, preds, reg, ticker,
                                       user_id, inference, fail) }

(***************************************************************************)
(* Ratio calculator: stock_service.py, _calculate_and_store_ratios.        *)
(* A fundamental is Null or Some(float).                                   *)
(***************************************************************************)
\* safe_growth that divides without testing old_val for zero: None on x / 0
safe_growth_none_on_zero(new_val, old_val) ==
    IF new_val = Null \/ old_val = Null THEN Some(Zero)
    ELSE IF IsZero(old_val[1]) THEN Null
    ELSE Some(fdiv(fsub(new_val[1], old_val[1]), old_val[1]))

\* safe_growth(new_val, old_val, default=0.0)
safe_growth(new_val, old_val) ==
    IF new_val = Null \/ old_val = Null \/ IsZero(old_val[1]) THEN Some(Zero)
    ELSE Some(fdiv(fsub(new_val[1], old_val[1]), old_val[1]))

\* safe_cagr(end_val, start_val, periods=2, default=0.0); pow of a positive
\* quotient to the power 1/2 does not raise
safe_cagr(end_val, start_val) ==
    IF end_val = Null \/ start_val = Null THEN Some(Zero)
    ELSE IF ~fgt0(start_val[1]) \/ ~fgt0(end_val[1]) THEN Some(Zero)
    ELSE Some(fsub(fsqrt(fdiv(end_val[1], start_val[1])), FromInt(1)))

\* safe_calc(numerator, denominator, default=None)
\* safe_calc with 0.0 as its default
safe_calc_default_zero(numerator, denominator) ==
    IF numerator = Null \/ denominator = Null \/ IsZero(denominator[1]) THEN Some(Zero)
    ELSE Some(fdiv(numerator[1], denominator[1]))

safe_calc(numerator, denominator) ==
    IF numerator = Null \/ denominator = Null \/ IsZero(denominator[1]) THEN Null
    ELSE Some(fdiv(numerator[1], denominator[1]))

leverage_change(debt_equity_2024, debt_equity_2025) ==
    IF debt_equity_2024 # Null /\ debt_equity_2025 # Null
    THEN Some(fsub(debt_equity_2025[1], debt_equity_2024[1]))
    ELSE Null

\* the volatility block for two growth rates: the value None or a float, or
\* OverflowError when one of the two squares raises
volatility(growth_a, growth_b) ==
    IF growth_a # Null /\ growth_b # Null
    THEN LET mean_growth == fdiv(fadd(growth_a[1], growth_b[1]), FromInt(2))
             sq_a == fsquare(fsub(growth_a[1], mean_growth))
             sq_b == fsquare(fsub(growth_b[1], mean_growth))
         IN  IF sq_a.raised \/ sq_b.raised THEN OverflowError
             ELSE LET variance == fdiv(fadd(sq_a.value, sq_b.value), FromInt(2))
                  IN  Value(Some(IF fge0(variance) THEN fsqrt(variance) ELSE Zero))
    ELSE Value(Null)

acceleration(growth_a, growth_b) ==
    IF growth_a # Null /\ growth_b # Null
    THEN Some(fsub(growth_b[1], growth_a[1]))
    ELSE Null

RatioNames ==
    <<"revenue_growth_1y", "ebitda_growth_1y", "equity_growth", "debt_trend",
      "cash_trend", "working_capital_trend", "leverage_change", "debt_to_equity_2025",
      "revenue_cagr_2y", "ebitda_cagr_2y", "book_value_cagr_2y", "revenue_volatility",
      "ebitda_volatility", "revenue_acceleration", "ebitda_acceleration",
      "capex_trend", "working_capital_trend_2y">>

\* the dict `ratios` built by _calculate_and_store_ratios for a stock, or
\* OverflowError when the arithmetic raises before the dict is stored
calculate_ratios(stock) ==
    LET debt_equity_2024 == safe_calc(stock.debt_per_share_2024,
                                      stock.book_value_per_share_2024)
        debt_equity_2025 == safe_calc(stock.debt_per_share_2025,
                                      stock.book_value_per_share_2025)
        growth_2023_2024 == safe_growth(stock.revenue_per_share_2024,
                                        stock.revenue_per_share_2023)
        growth_2024_2025 == safe_growth(stock.revenue_per_share_2025,
                                        stock.revenue_per_share_2024)
        ebitda_growth_2023_2024 == safe_growth(stock.ebitda_per_share_2024,
                                               stock.ebitda_per_share_2023)
        ebitda_growth_2024_2025 == safe_growth(stock.ebitda_per_share_2025,
                                               stock.ebitda_per_share_2024)
        revenue_volatility == volatility(growth_2023_2024, growth_2024_2025)
        ebitda_volatility == volatility(ebitda_growth_2023_2024, ebitda_growth_2024_2025)
    IN  IF revenue_volatility.raised THEN RaisedAt("revenue_volatility")
        ELSE IF ebitda_volatility.raised THEN RaisedAt("ebitda_volatility")
        ELSE
          [revenue_growth_1y |-> safe_growth(stock.revenue_per_share_2025,
                                             stock.revenue_per_share_2024),
           ebitda_growth_1y |-> safe_growth(stock.ebitda_per_share_2025,
                                            stock.ebitda_per_share_2024),
           equity_growth |-> safe_growth(stock.book_value_per_share_2025,
                                         stock.book_value_per_share_2024),
           debt_trend |-> safe_growth(stock.debt_per_share_2025,
                                      stock.debt_per_share_2024),
           cash_trend |-> safe_growth(stock.cash_per_share_2025,
                                      stock.cash_per_share_2024),
           working_capital_trend |-> safe_growth(stock.working_capital_per_share_2025,
                                                 stock.working_capital_per_share_2024),
           leverage_change |-> leverage_change(debt_equity_2024, debt_equity_2025),
           debt_to_equity_2025 |-> debt_equity_2025,
           revenue_cagr_2y |-> safe_cagr(stock.revenue_per_share_2025,
                                         stock.revenue_per_share_2023),
           ebitda_cagr_2y |-> safe_cagr(stock.ebitda_per_share_2025,
                                        stock.ebitda_per_share_2023),
           book_value_cagr_2y |-> safe_cagr(stock.book_value_per_share_2025,
                                            stock.book_value_per_share_2023),
           revenue_volatility |-> revenue_volatility.value,
           ebitda_volatility |-> ebitda_volatility.value,
           revenue_acceleration |-> acceleration(growth_2023_2024, growth_2024_2025),
           ebitda_acceleration |-> acceleration(ebitda_growth_2023_2024,
                                                ebitda_growth_2024_2025),
           capex_trend |-> safe_growth(stock.capex_per_share_2025,
                                       stock.capex_per_share_2024),
           working_capital_trend_2y |-> safe_cagr(stock.working_capital_per_share_2025,
                                                  stock.working_capital_per_share_2023),
           ticker |-> stock.ticker]

(***************************************************************************)
(* Explainer: explanation_service.py.  An array is a sequence of integers. *)
(* A call gives [raised |-> FALSE, value |-> v] when it returns v and      *)
(* Raise(e) when exception e leaves it.  A string is the sequence of its   *)
(* sentences, the empty string being the empty sequence.                   *)
(***************************************************************************)
Raise(exception) == [raised |-> TRUE, exception |-> exception]

Sentence(text, feature) == [text |-> text, feature |-> feature]

\* the attribution magnitudes taken with their sign
np_abs_signed(x) == x

\* np.abs on one element
np_abs(x) == IF x < 0 THEN -x ELSE x

abs_array(v) == [i \in 1..Len(v) |-> np_abs(v[i])]

\* np.argsort(v): the indices in ascending order of value; equal values
\* keep their order (numpy sorts arrays of fewer than 16 elements by
\* insertion)
argsort(v) ==
    LET rank(i) == Cardinality({ j \in 1..Len(v) :
                                    v[j] < v[i] \/ (v[j] = v[i] /\ j < i) }) + 1
    IN  [k \in 1..Len(v) |-> CHOOSE i \in 1..Len(v) : rank(i) = k]

\* np.argsort(v)[-3:][::-1]
top_indices(v) ==
    LET sorted == argsort(v)
        n == Len(sorted)
    IN  [k \in 1..Min(3, n) |-> sorted[n - k + 1]]

\* the loop that builds top_features: IndexError when an index is past the
\* end of feature_names or of feature_values
build_top_features(indices, feature_names, feature_values, impacts) ==
    IF \E k \in 1..Len(indices) :
           indices[k] > Len(feature_names) \/ indices[k] > Len(feature_values)
    THEN Raise("IndexError")
    ELSE Value([k \in 1..Len(indices) |->
                  [name   |-> feature_names[indices[k]],
                   value  |-> feature_values[indices[k]],
                   impact |-> impacts[indices[k]]]])

\* list(feature_names).index(name)
index_of(feature_names, name) ==
    CHOOSE i \in 1..Len(feature_names) :
        /\ feature_names[i] = name
        /\ \A j \in 1..(i - 1) : feature_names[j] # name

_format_feature_importance_explanation(top_features) ==
    IF top_features = <<>>
    THEN <<Sentence("Prediction based on multiple factors.", "")>>
    ELSE [k \in 1..Len(top_features) |->
             Sentence("is a key factor", top_features[k].name)]

_format_shap_explanation(top_features, shap_values, feature_names) ==
    IF top_features = <<>>
    THEN <<Sentence("Prediction based on multiple factors.", "")>>
    ELSE [k \in 1..Len(top_features) |->
             Sentence(IF shap_values[index_of(feature_names, top_features[k].name)] > 0
                      THEN "contributes positively" ELSE "contributes negatively",
                      top_features[k].name)]

_format_coefficient_explanation(top_features) ==
    IF top_features = <<>>
    THEN <<Sentence("Prediction based on multiple growth factors.", "")>>
    ELSE [k \in 1..Len(top_features) |->
             Sentence("is a significant factor", top_features[k].name)]

\* the pair an entry point returns
Explained(top_features, explanation) ==
    Value([top_features |-> top_features, reason |-> explanation])

\* explain_with_feature_importance with nothing catching what its body raises
explain_with_feature_importance_unguarded(model, feature_names, feature_values) ==
    IF model.feature_importances_ = Null THEN Raise("AttributeError")
    ELSE LET importances == model.feature_importances_[1]
             top_features == build_top_features(top_indices(importances), feature_names,
                                                feature_values, importances)
         IN  IF top_features.raised THEN top_features
             ELSE Explained(top_features.value,
                            _format_feature_importance_explanation(top_features.value))

explain_with_feature_importance(model, feature_names, feature_values) ==
    LET try == explain_with_feature_importance_unguarded(model, feature_names,
                                                          feature_values)
    IN  IF try.raised
        THEN Explained(<<>>, <<Sentence("Unable to generate explanation.", "")>>)
        ELSE try

\* the top features and the explanation for the attribution of the
\* predicted class (the part shared by both SHAP entry points)
explain_shap_values(shap_values, feature_names, feature_values) ==
    LET abs_shap == abs_array(shap_values)
        top_features == build_top_features(top_indices(abs_shap), feature_names,
                                           feature_values, abs_shap)
    IN  IF top_features.raised THEN top_features
        ELSE Explained(top_features.value,
                       _format_shap_explanation(top_features.value, shap_values,
                                                feature_names))

\* model.tree_shap is what TreeExplainer gives for the predicted class, Null
\* when TreeExplainer, shap_values or the slicing raises
explain_with_shap_tree(model, feature_names, feature_values) ==
    LET try == IF model.tree_shap = Null THEN Raise("Exception")
               ELSE explain_shap_values(model.tree_shap[1], feature_names,
                                        feature_values)
    IN  IF try.raised
        THEN explain_with_feature_importance(model, feature_names, feature_values)
        ELSE try

\* the coefficient branch of _explain_svm_with_coefficients: ValueError when
\* coefficients and features differ in length
coefficient_attribution(model, features_transformed, feature_names, feature_values) ==
    LET coefficients == model.coef_[1]
        impacts == [i \in 1..Len(coefficients) |->
                       np_abs(coefficients[i] * features_transformed[i])]
        top_features == build_top_features(top_indices(impacts), feature_names,
                                           feature_values, impacts)
    IN  IF Len(coefficients) # Len(features_transformed) THEN Raise("ValueError")
        ELSE IF top_features.raised THEN top_features
        ELSE Explained(top_features.value,
                       _format_coefficient_explanation(top_features.value))

\* the else branch of _explain_svm_with_coefficients: the ranking by
\* np.abs(features_transformed[0])
feature_value_attribution(features_transformed, feature_names, feature_values) ==
    LET abs_features == abs_array(features_transformed)
        top_features == build_top_features(top_indices(abs_features), feature_names,
                                           feature_values, abs_features)
    IN  IF top_features.raised THEN top_features
        ELSE Explained(top_features.value,
                       <<Sentence("Prediction based on key growth metrics. ", "")>>
                       \o [k \in 1..Len(top_features.value) |->
                               Sentence("", top_features.value[k].name)])

_explain_svm_with_coefficients(model, features_transformed, feature_names, feature_values) ==
    LET try == IF model.coef_ # Null
               THEN coefficient_attribution(model, features_transformed, feature_names,
                                            feature_values)
               ELSE feature_value_attribution(features_transformed, feature_names,
                                              feature_values)
    IN  IF try.raised
        THEN Explained(<<>>, <<Sentence("Unable to generate detailed explanation.", "")>>)
        ELSE try

\* the try block of explain_with_shap_kernel.  background_data is Null when
\* missing, else its number of rows; model.kernel_shap is what
\* KernelExplainer gives for the predicted class, Null when KernelExplainer,
\* shap_values or the slicing raises
sampling_attribution(model, background_data, feature_names, feature_values) ==
    IF background_data = Null THEN Raise("AttributeError")
    ELSE IF ~model.predict_proba THEN Raise("Exception")
    ELSE IF model.kernel_shap = Null THEN Raise("Exception")
    ELSE explain_shap_values(model.kernel_shap[1], feature_names, feature_values)

explain_with_shap_kernel(model, background_data, features_transformed, feature_names, feature_values) ==
    LET try == sampling_attribution(model, background_data, feature_names,
                                    feature_values)
    IN  IF try.raised
        THEN _explain_svm_with_coefficients(model, features_transformed, feature_names,
                                            feature_values)
        ELSE try

(***************************************************************************)
(* Stock management: stock_repository.py and stock_service.py.  A table is *)
(* a function from primary key to row.  A repository operation returns     *)
(* [raised, stocks, ratios, seq, row]: whether the database raised, the    *)
(* two tables and the key sequences after it, and the row it returns.      *)
(***************************************************************************)
DbResult(raised, stock_tbl, ratio_tbl, seq, row) ==
    [raised |-> raised, stocks |-> stock_tbl, ratios |-> ratio_tbl, seq |-> seq,
     row |-> row]

WithRow(tbl, id, row) ==
    [i \in DOMAIN tbl \cup {id} |-> IF i = id THEN row ELSE tbl[i]]

WithoutRows(tbl, ids) == [i \in DOMAIN tbl \ ids |-> tbl[i]]

\* select(Stock).where(Stock.id == stock_id)
get_stock_by_id(tbl, stock_id) ==
    IF stock_id \in DOMAIN tbl THEN tbl[stock_id] ELSE NoRow

\* the unique index on stocks.ticker not enforced
ticker_taken_unenforced(tbl, ticker) == FALSE

\* ticker = Column(String(20), unique=True): a row already holds the ticker
ticker_taken(tbl, ticker) == \E i \in DOMAIN tbl : tbl[i].ticker = ticker

\* StockRepository.create_stock: Stock(**stock_data), add, commit, refresh
repo_create_stock(stock_tbl, ratio_tbl, seq, stock_data) ==
    LET id == seq.stocks + 1
        stock == [id |-> id, is_active |-> TRUE] @@ stock_data
    IN  IF ticker_taken(stock_tbl, stock_data.ticker)
        THEN DbResult(TRUE, stock_tbl, ratio_tbl, seq, NoRow)
        ELSE DbResult(FALSE, WithRow(stock_tbl, id, stock), ratio_tbl,
                      [seq EXCEPT !.stocks = id], stock)

\* StockRepository.update_stock: setattr for each value that is not None,
\* commit, refresh
repo_update_stock(stock_tbl, ratio_tbl, seq, stock_id, update_data) ==
    LET stock == get_stock_by_id(stock_tbl, stock_id)
        updated == [name \in DOMAIN stock |->
                       IF name \in DOMAIN update_data /\ update_data[name] # Null
                       THEN update_data[name] ELSE stock[name]]
    IN  IF stock = NoRow THEN DbResult(FALSE, stock_tbl, ratio_tbl, seq, NoRow)
        ELSE DbResult(FALSE, WithRow(stock_tbl, stock_id, updated), ratio_tbl, seq,
                      updated)

\* StockRepository.delete_stock: is_active = False, commit
repo_delete_stock(stock_tbl, ratio_tbl, seq, stock_id) ==
    LET stock == get_stock_by_id(stock_tbl, stock_id)
    IN  IF stock = NoRow THEN DbResult(FALSE, stock_tbl, ratio_tbl, seq, NoRow)
        ELSE DbResult(FALSE,
                      WithRow(stock_tbl, stock_id, [stock EXCEPT !.is_active = FALSE]),
                      ratio_tbl, seq, stock)

\* StockRepository.hard_delete_stock: delete, commit.  StockRatio.stock has
\* backref "ratios" with neither a delete cascade nor passive_deletes, so the
\* flush first sets stock_id of the stock's ratio rows to NULL; the column is
\* nullable=False and the statement raises IntegrityError before the
\* database's ON DELETE CASCADE can act
hard_delete_stock(stock_tbl, ratio_tbl, seq, stock_id) ==
    LET stock == get_stock_by_id(stock_tbl, stock_id)
        children == { i \in DOMAIN ratio_tbl : ratio_tbl[i].stock_id = stock_id }
    IN  IF stock = NoRow THEN DbResult(FALSE, stock_tbl, ratio_tbl, seq, NoRow)
        ELSE IF children # {} THEN DbResult(TRUE, stock_tbl, ratio_tbl, seq, stock)
        ELSE DbResult(FALSE, WithoutRows(stock_tbl, {stock_id}), ratio_tbl, seq, stock)

\* update_stock_ratios that keeps the stored value where the new one is None
update_stock_ratios_keeping_on_none(stock_tbl, ratio_tbl, seq, stock_id, ratio_data) ==
    LET ratio == get_stock_ratios(ratio_tbl, stock_id)
        id == seq.ratios + 1
    IN  IF ratio # NoRow
        THEN LET updated == [name \in DOMAIN ratio |->
                                IF /\ name \in DOMAIN ratio_data
                                   /\ (name = "ticker" \/ ratio_data[name] # Null)
                                THEN ratio_data[name] ELSE ratio[name]]
             IN  DbResult(FALSE, stock_tbl, WithRow(ratio_tbl, ratio.id, updated), seq,
                          updated)
        ELSE IF stock_id \notin DOMAIN stock_tbl
        THEN DbResult(TRUE, stock_tbl, ratio_tbl, seq, NoRow)
        ELSE LET created == [id |-> id, stock_id |-> stock_id] @@ ratio_data
             IN  DbResult(FALSE, stock_tbl, WithRow(ratio_tbl, id, created),
                          [seq EXCEPT !.ratios = id], created)

\* StockRepository.update_stock_ratios: setattr of every key on the existing
\* row, else StockRatio(stock_id=stock_id, **ratio_data) (its foreign key
\* needs the stock); commit, refresh
update_stock_ratios(stock_tbl, ratio_tbl, seq, stock_id, ratio_data) ==
    LET ratio == get_stock_ratios(ratio_tbl, stock_id)
        id == seq.ratios + 1
    IN  IF ratio # NoRow
        THEN LET updated == [name \in DOMAIN ratio |->
                                IF name \in DOMAIN ratio_data
                                THEN ratio_data[name] ELSE ratio[name]]
             IN  DbResult(FALSE, stock_tbl, WithRow(ratio_tbl, ratio.id, updated), seq,
                          updated)
        ELSE IF stock_id \notin DOMAIN stock_tbl
        THEN DbResult(TRUE, stock_tbl, ratio_tbl, seq, NoRow)
        ELSE LET created == [id |-> id, stock_id |-> stock_id] @@ ratio_data
             IN  DbResult(FALSE, stock_tbl, WithRow(ratio_tbl, id, created),
                          [seq EXCEPT !.ratios = id], created)

\* the result dict of a stock-management call and what the call was
StockResult(op, status_code, error, stock_id, ticker) ==
    [op |-> op, status_code |-> status_code, error |-> error, stock_id |-> stock_id,
     ticker |-> ticker]

\* stock_dict of create_stock: the request with the ticker in upper case
stock_dict(stock_data, user_id) ==
    [stock_data EXCEPT !.ticker = Upper(@)] @@ [created_by |-> user_id]

\* update_dict of update_stock: the fields of the request that are not None
update_dict(update_data) ==
    [name \in { n \in DOMAIN update_data : update_data[n] # Null } |->
        update_data[name]]

(***************************************************************************)
(* History: prediction_service.py, get_user_predictions and                *)
(* get_prediction_by_id.  A result is [status_code, error, data]; data is  *)
(* NoData when the Python dict has no "data" key.                          *)
(***************************************************************************)
ReadResult(status_code, error, data) ==
    [status_code |-> status_code, error |-> error, data |-> data]

\* the columns of a stored row that get_prediction_by_id copies into "data"
prediction_detail(prediction) ==
    [id |-> prediction.id, ticker |-> prediction.ticker,
     model_1_prediction |-> prediction.model_1_prediction,
     model_1_confidence |-> prediction.model_1_confidence,
     model_2_prediction |-> prediction.model_2_prediction,
     model_2_confidence |-> prediction.model_2_confidence,
     model_3_prediction |-> prediction.model_3_prediction,
     model_3_confidence |-> prediction.model_3_confidence,
     final_recommendation |-> prediction.final_recommendation,
     final_confidence |-> prediction.final_confidence]

\* the columns get_user_predictions copies for each row of the page
prediction_summary(prediction) ==
    [id |-> prediction.id, ticker |-> prediction.ticker,
     final_recommendation |-> prediction.final_recommendation,
     final_confidence |-> prediction.final_confidence]

\* the ownership test comparing the row's id with the requester
owner_differs_by_row_id(prediction, user_id) == prediction.id # user_id

\* if prediction.user_id != user_id
owner_differs(prediction, user_id) == prediction.user_id # user_id

get_prediction_by_id(tbl, prediction_id, user_id, fail) ==
    LET prediction == repo_get_prediction_by_id(tbl, prediction_id)
    IN  IF fail = Stage("prediction_lookup")
        THEN ReadResult(500, <<"Error fetching prediction", "prediction_lookup">>, NoData)
        ELSE IF prediction = NoRow
        THEN ReadResult(404, <<"Prediction not found">>, NoData)
        ELSE IF owner_differs(prediction, user_id)
        THEN ReadResult(403, <<"Access denied">>, NoData)
        ELSE ReadResult(200, <<>>, prediction_detail(prediction))

get_user_predictions(tbl, user_id, skip, limit, fail) ==
    LET rows == repo_get_user_predictions(tbl, user_id, skip, limit)
        total == get_user_prediction_count(tbl, user_id)
    IN  IF fail = Stage("history_lookup")
        THEN ReadResult(500, <<"Error fetching predictions", "history_lookup">>, NoData)
        ELSE IF fail = Stage("history_count")
        THEN ReadResult(500, <<"Error fetching predictions", "history_count">>, NoData)
        ELSE ReadResult(200, <<>>,
                        [rows  |-> [i \in 1..Len(rows) |-> prediction_summary(rows[i])],
                         total |-> total])

(***************************************************************************)
(* Inputs of the two pure-function specifications                          *)
(***************************************************************************)
ValLabels == {"undervalued", "fair", "overvalued",
              "UNDERVALUED", "FAIR", "OVERVALUED", "unknown"}
HealthLabels == {"excellent", "fair", "poor",
                 "EXCELLENT", "FAIR", "POOR", "unknown"}
GrowthLabels == {"strong_growth", "moderate_growth", "weak_growth", "declining",
                 "STRONG_GROWTH", "MODERATE_GROWTH", "WEAK_GROWTH", "DECLINING",
                 "unknown"}
Confidences == {[n |-> k, d |-> ConfDen] : k \in 0..ConfDen}

VoteInputs ==
    [val_pred : ValLabels, health_pred : HealthLabels, growth_pred : GrowthLabels,
     val_conf : Confidences, health_conf : Confidences, growth_conf : Confidences]


\* every record over the names: each attribute absent, None, 0 or a non-zero
\* number that tells the attributes apart
ObjectOfKinds(names, k) ==
    [name \in DOMAIN k |->
        CASE k[name] = "null" -> Null
          [] k[name] = "zero" -> Some(Zero)
          [] OTHER            -> Some(FromInt(IndexOf(names, name) * FeatUnit))]

ObjectsOver(names) ==
    { ObjectOfKinds(names, k) :
        k \in UNION { [S -> {"null", "zero", "number"}] : S \in SUBSET RangeOf(names) } }

FeatInputs ==
    [model : {1}, obj : ObjectsOver(model_1_feature_names)]
    \cup [model : {2}, obj : ObjectsOver(model_2_feature_names)]
    \cup [model : {3}, obj : ObjectsOver(model_3_feature_names)]

(***************************************************************************)
(* Inputs and initial state of the service                                 *)
(***************************************************************************)
EmptyTable == [k \in {} |-> NoRow]

\* no call of the voter, of an assembler, of the ratio calculator under study
VoteIdle == vote_in = NoCall /\ vote_out = NoCall
FeatIdle == feat_in = NoCall /\ feat_out = NoCall
RatioIdle == ratio_in = NoCall /\ ratio_out = NoCall
ExplainIdle == explain_in = NoCall /\ explain_out = NoCall

(***************************************************************************)
(* Sessions: user_service.py and user_repository.py.  Time is counted in   *)
(* days.  A session id is the position of the session among those created  *)
(* (uuid4 gives an id never used before).                                  *)
(***************************************************************************)
MaxSessions == 1
MaxTime == 8

\* timedelta(days=7)
SessionDays == 7

Emails == <<"a@x.com", "b@x.com">>

\* the users table after two signups
Accounts == [i \in 1..Len(Emails) |-> [id |-> i, email |-> Emails[i]]]

\* select(User).where(User.email == email)
get_user_by_email(user_tbl, email) ==
    one_or_none(user_tbl, { i \in DOMAIN user_tbl : user_tbl[i].email = email })

\* select(User).where(User.id == user_id)
get_user_by_id(user_tbl, user_id) ==
    one_or_none(user_tbl, { i \in DOMAIN user_tbl : user_tbl[i].id = user_id })

\* select(Session).where(Session.session_id == session_id)
get_session_by_id(session_tbl, session_id) ==
    one_or_none(session_tbl,
                { i \in DOMAIN session_tbl : session_tbl[i].session_id = session_id })

\* UserRepository.create_session: the row it adds and commits
create_session(session_tbl, user_email, session_id, today) ==
    WithRow(session_tbl, session_id,
            [session_id |-> session_id, user_mail |-> user_email,
             expires_at |-> today + SessionDays])

\* UserRepository.delete_session
delete_session(session_tbl, session) ==
    WithoutRows(session_tbl, { i \in DOMAIN session_tbl :
                                  session_tbl[i].session_id = session.session_id })

\* UserRepository.delete_user: delete(Session).where(user_mail == user.email),
\* delete(user), commit
repo_delete_user(user_tbl, session_tbl, user) ==
    [users |-> WithoutRows(user_tbl, { i \in DOMAIN user_tbl : user_tbl[i].id = user.id }),
     sessions |-> WithoutRows(session_tbl, { i \in DOMAIN session_tbl :
                                                session_tbl[i].user_mail = user.email })]

\* a test of expiry that never finds a session expired
session_expired_never(session, today) == FALSE

\* session.expires_at < datetime.now(timezone.utc)
session_expired(session, today) == session.expires_at < today

AuthResult(status_code, detail, session, user) ==
    [status_code |-> status_code, detail |-> detail, session |-> session, user |-> user]

\* UserService.validate_session: HTTPException 404 or 401, or (session, user),
\* status 200 standing for the return; user is NoRow where Python has None
validate_session(user_tbl, session_tbl, session_id, today) ==
    LET session == get_session_by_id(session_tbl, session_id)
    IN  IF session = NoRow
        THEN AuthResult(404, "Session not found", NoRow, NoRow)
        ELSE IF session_expired(session, today)
        THEN AuthResult(401, "Session expired", NoRow, NoRow)
        ELSE AuthResult(200, "", session, get_user_by_email(user_tbl, session.user_mail))

\* what the statements about sessions refer to: for each session created its owner and
\* day of creation, the ids logout_user deleted, the emails of deleted users
NoAuthLog == [issued |-> <<>>, logged_out |-> {}, deleted |-> {}]

AuthIdle ==
    /\ users = EmptyTable
    /\ sessions = EmptyTable
    /\ now = 0
    /\ auth_log = NoAuthLog
    /\ last_auth = NoCall

Procs == {1, 2}
Idle == [op |-> "idle"]

\* no stock-management call was made; the keys of the rows present were handed out
StockManagementIdle ==
    /\ id_seq = [stocks |-> 1, ratios |-> 1]
    /\ calls = [p \in Procs |-> Idle]
    /\ calls_started = 0
    /\ stock_resp = NoCall

\* ModelLoader.__init__ (self.models = {}), no request served yet
ServiceConstructed ==
    /\ models = EmptyTable
    /\ last_load = NoCall
    /\ health_resp = NoCall
    /\ predictions = <<>>
    /\ last_predict = NoCall
    /\ last_read = NoCall
    /\ StockManagementIdle

\* the stock tables as stock management leaves them: no stock, a stock whose
\* ratios were never stored, a stock with its ratios
StockABC ==
    [id |-> 1, ticker |-> "ABC",
     pe_ratio |-> Some(FromInt(15)), pb_ratio |-> Some(FromInt(1)), roe |-> Some(FromInt(18)),
     debt_equity |-> Null, profit_margin |-> Some(FromInt(12))]

RatiosABC ==
    [id |-> 1, stock_id |-> 1, ticker |-> "ABC",
     revenue_growth_1y |-> Some(FromInt(1)), ebitda_growth_1y |-> Some(FromInt(0)),
     equity_growth |-> Some(FromInt(2)), debt_trend |-> Some(FromInt(-1)), cash_trend |-> Some(FromInt(0)),
     working_capital_trend |-> Some(FromInt(3)), leverage_change |-> Null,
     debt_to_equity_2025 |-> Null,
     revenue_cagr_2y |-> Some(FromInt(1)), ebitda_cagr_2y |-> Some(FromInt(0)),
     book_value_cagr_2y |-> Some(FromInt(2)), revenue_volatility |-> Null,
     ebitda_volatility |-> Some(FromInt(1)), revenue_acceleration |-> Null,
     ebitda_acceleration |-> Some(FromInt(-2)), capex_trend |-> Some(FromInt(0)),
     working_capital_trend_2y |-> Some(FromInt(4))]

DbStates ==
    { [stocks |-> EmptyTable, ratios |-> EmptyTable],
      [stocks |-> [i \in {1} |-> StockABC], ratios |-> EmptyTable],
      [stocks |-> [i \in {1} |-> StockABC],
       ratios |-> [i \in {1} |-> RatiosABC]] }

RequestTickers == {"ABC", "abc", "XYZ"}
UserIds == {1, 2}

\* what the three estimators answer for a request
InferenceOutcomes ==
    { [pick  |-> <<"first", "first", "first">>,
       proba |-> <<Some([n |-> 8, d |-> 10]), Some([n |-> 9, d |-> 10]),
                   Some([n |-> 7, d |-> 10])>>],
      [pick  |-> <<"last", "last", "last">>,
       proba |-> <<Some([n |-> 9, d |-> 10]), Some([n |-> 8, d |-> 10]), Null>>] }

(***************************************************************************)
(* The service: registry loads, health checks and predictions              *)
(***************************************************************************)
Init ==
    /\ AuthIdle
    /\ ServiceConstructed
    /\ \E db \in DbStates : stocks = db.stocks /\ ratios = db.ratios
    /\ VoteIdle
    /\ FeatIdle
    /\ RatioIdle
    /\ ExplainIdle

\* model_loader.load_models()
LoadModels ==
    \E fs \in FsStates :
        LET r == load_models(models, fs)
        IN  /\ models' = r.models
            /\ last_load' = [result |-> r.result, loaded |-> r.loaded,
                             failed_at |-> r.failed_at, before |-> DOMAIN models]
            /\ UNCHANGED <<health_resp, stocks, ratios, predictions, last_predict,
                           last_read, stockVars>>
            /\ UNCHANGED <<pureVars, authVars>>

\* GET /predict/health
HealthCheck ==
    /\ health_resp' = IF health_check(models)
                      THEN [status_code |-> 200, status |-> "healthy"]
                      ELSE [status_code |-> 503, status |-> "ML models not loaded"]
    /\ UNCHANGED <<models, last_load, stocks, ratios, predictions, last_predict,
                   last_read, stockVars>>
    /\ UNCHANGED <<pureVars, authVars>>

\* POST /predict/stock -> PredictionService.predict_stock(ticker, user_id), for
\* requests drawn from the given tickers and failures while the table holds
\* fewer than max_rows rows
PredictStockOf(max_rows, tickers, failures) ==
    /\ Len(predictions) < max_rows
    /\ \E ticker \in tickers, user_id \in UserIds,
          inference \in InferenceOutcomes, fail \in failures :
        \E outcome \in predict_stock(stocks, ratios, predictions, models,
                                     ticker, user_id, inference, fail) :
            /\ last_predict' = [ticker |-> ticker, user_id |-> user_id,
                                loaded_keys |-> DOMAIN models,
                                records_before |-> Len(predictions)] @@ outcome
            /\ predictions' = insert_rows(predictions, outcome.saved)
    /\ UNCHANGED <<models, last_load, health_resp, stocks, ratios, last_read,
                   stockVars>>
    /\ UNCHANGED <<pureVars, authVars>>

PredictStock ==
    PredictStockOf(MaxPredictions, RequestTickers, FailureStages \cup {NoFailure})

Next == LoadModels \/ HealthCheck \/ PredictStock

Spec == Init /\ [][Next]_vars

(***************************************************************************)
(* The prediction history: a started service serving predictions, history  *)
(* pages and history details                                               *)
(***************************************************************************)
\* the service after a startup whose load_models found every artifact
ServiceStarted ==
    LET fs == [base |-> TRUE, folder |-> [k \in RangeOf(ModelKeys) |-> "ok"]]
        r == load_models(EmptyTable, fs)
    IN  /\ models = r.models
        /\ last_load = [result |-> r.result, loaded |-> r.loaded,
                        failed_at |-> r.failed_at, before |-> {}]
        /\ health_resp = NoCall
        /\ predictions = <<>>
        /\ last_predict = NoCall
        /\ last_read = NoCall
        /\ StockManagementIdle

InitHistory ==
    /\ AuthIdle
    /\ ServiceStarted
    /\ \E db \in DbStates : stocks = db.stocks /\ ratios = db.ratios
    /\ VoteIdle
    /\ FeatIdle
    /\ RatioIdle
    /\ ExplainIdle

HistoryTickers == {"ABC", "XYZ"}
HistoryFailures == {NoFailure, Stage("commit"), Stage("refresh")}

HistoryPredictStock == PredictStockOf(MaxRecords, HistoryTickers, HistoryFailures)

\* ids a detail request asks for: the rows that can exist and one beyond
PredictionIds == 1..(MaxRecords + 1)

\* GET /predict/history/{prediction_id}
GetPredictionDetail ==
    /\ \E prediction_id \in PredictionIds, user_id \in UserIds,
          fail \in {NoFailure, Stage("prediction_lookup")} :
          last_read' = [call |-> "get_prediction_by_id",
                        prediction_id |-> prediction_id, user_id |-> user_id,
                        answered |-> fail = NoFailure,
                        records_before |-> Len(predictions)]
                       @@ get_prediction_by_id(predictions, prediction_id, user_id, fail)
    /\ UNCHANGED <<models, last_load, health_resp, stocks, ratios, predictions,
                   last_predict, stockVars>>
    /\ UNCHANGED <<pureVars, authVars>>

\* GET /predict/history?skip=..&limit=..
GetPredictionHistory ==
    /\ \E user_id \in UserIds, skip \in 0..1, limit \in 1..2,
          fail \in {NoFailure, Stage("history_lookup"), Stage("history_count")} :
          last_read' = [call |-> "get_user_predictions",
                        user_id |-> user_id, skip |-> skip, limit |-> limit,
                        answered |-> fail = NoFailure,
                        records_before |-> Len(predictions)]
                       @@ get_user_predictions(predictions, user_id, skip, limit, fail)
    /\ UNCHANGED <<models, last_load, health_resp, stocks, ratios, predictions,
                   last_predict, stockVars>>
    /\ UNCHANGED <<pureVars, authVars>>

NextHistory == HistoryPredictStock \/ GetPredictionDetail \/ GetPredictionHistory

SpecHistory == InitHistory /\ [][NextHistory]_vars

(***************************************************************************)
(* The voter applied to every combination of labels and confidences        *)
(***************************************************************************)
InitVote ==
    /\ AuthIdle
    /\ vote_in \in VoteInputs
    /\ vote_out = NoCall
    /\ FeatIdle
    /\ RatioIdle
    /\ ExplainIdle
    /\ ServiceConstructed
    /\ stocks = EmptyTable
    /\ ratios = EmptyTable

EnsembleVoting ==
    /\ vote_in # NoCall
    /\ vote_out = NoCall
    /\ vote_out' \in _ensemble_voting(vote_in.val_pred, vote_in.health_pred,
                                      vote_in.growth_pred, vote_in.val_conf,
                                      vote_in.health_conf, vote_in.growth_conf)
    /\ UNCHANGED <<vote_in, featVars, ratioVars, explainVars>>
    /\ UNCHANGED <<serviceVars, authVars>>

NextVote == EnsembleVoting

SpecVote == InitVote /\ [][NextVote]_vars

(***************************************************************************)
(* The assemblers applied to every input record                            *)
(***************************************************************************)
InitFeat ==
    /\ AuthIdle
    /\ feat_in \in FeatInputs
    /\ feat_out = NoCall
    /\ VoteIdle
    /\ RatioIdle
    /\ ExplainIdle
    /\ ServiceConstructed
    /\ stocks = EmptyTable
    /\ ratios = EmptyTable

PrepareFeatures ==
    /\ feat_in # NoCall
    /\ feat_out = NoCall
    /\ feat_out' = CASE feat_in.model = 1 -> _prepare_model_1_features(feat_in.obj)
                     [] feat_in.model = 2 -> _prepare_model_2_features(feat_in.obj)
                     [] OTHER             -> _prepare_model_3_features(feat_in.obj)
    /\ UNCHANGED <<feat_in, voteVars, ratioVars, explainVars>>
    /\ UNCHANGED <<serviceVars, authVars>>

NextFeat == PrepareFeatures

SpecFeat == InitFeat /\ [][NextFeat]_vars

(***************************************************************************)
(* The ratio calculator applied to stocks whose fundamentals are null,     *)
(* zero, negative, positive or huge                                        *)
(***************************************************************************)
FundValues ==
    {Null, Some(FromInt(0)), Some(FromInt(-1)), Some(FromInt(1)), Some(FromInt(2)),
     Some(FromInt(Huge))}

\* the fields of a metric, and of the two metrics of the leverage figures
FieldGroups ==
    { {"revenue_per_share_2023", "revenue_per_share_2024", "revenue_per_share_2025"},
      {"ebitda_per_share_2023", "ebitda_per_share_2024", "ebitda_per_share_2025"},
      {"book_value_per_share_2023", "book_value_per_share_2024",
       "book_value_per_share_2025"},
      {"debt_per_share_2024", "debt_per_share_2025",
       "book_value_per_share_2024", "book_value_per_share_2025"},
      {"debt_per_share_2023", "cash_per_share_2023", "cash_per_share_2024",
       "cash_per_share_2025"},
      {"working_capital_per_share_2023", "working_capital_per_share_2024",
       "working_capital_per_share_2025"},
      {"capex_per_share_2023", "capex_per_share_2024", "capex_per_share_2025"} }

FundNames == UNION FieldGroups

\* a stock whose other fundamentals all hold the value base
StockWith(assignment, base) ==
    [name \in FundNames \cup {"ticker"} |->
        IF name = "ticker" THEN "ABC"
        ELSE IF name \in DOMAIN assignment THEN assignment[name] ELSE base]

RatioInputs ==
    { StockWith(assignment, base) :
        assignment \in UNION { [group -> FundValues] : group \in FieldGroups },
        base \in {Null, Some(FromInt(2))} }

InitRatio ==
    /\ AuthIdle
    /\ ratio_in \in RatioInputs
    /\ ratio_out = NoCall
    /\ VoteIdle
    /\ FeatIdle
    /\ ExplainIdle
    /\ ServiceConstructed
    /\ stocks = EmptyTable
    /\ ratios = EmptyTable

CalculateRatios ==
    /\ ratio_in # NoCall
    /\ ratio_out = NoCall
    /\ ratio_out' = calculate_ratios(ratio_in)
    /\ UNCHANGED <<ratio_in, voteVars, featVars, explainVars>>
    /\ UNCHANGED <<serviceVars, authVars>>

NextRatio == CalculateRatios

SpecRatio == InitRatio /\ [][NextRatio]_vars

(***************************************************************************)
(* The explainer entry points on models with and without each capability   *)
(***************************************************************************)
FeatureCounts == {0, 1, 2, MaxFeatures}

\* signed attributions and coefficients, and importances (never negative)
SignedArrays(n) == [1..n -> {-2, 1}]
ImportanceArrays(n) == [1..n -> {0, 2}]

NullOr(values) == {Null} \cup { Some(v) : v \in values }

NamesOf(n) == SubSeq(model_3_feature_names, 1, n)
ValuesOf(n) == [i \in 1..n |-> 10 * i]

\* feature_names and feature_values as long as the model has features, or
\* one of them an element short
NameValueLists(n) ==
    { [feature_names |-> NamesOf(n), feature_values |-> ValuesOf(n)] }
    \cup (IF n = 0 THEN {}
          ELSE { [feature_names |-> NamesOf(n - 1), feature_values |-> ValuesOf(n)],
                 [feature_names |-> NamesOf(n), feature_values |-> ValuesOf(n - 1)] })

ExplainCall(entry, n, model, background_data, lists) ==
    [entry |-> entry, features |-> n, model |-> model,
     background_data |-> background_data,
     features_transformed |-> [i \in 1..n |-> i - 2],
     feature_names |-> lists.feature_names, feature_values |-> lists.feature_values]

FeatureImportanceCalls(n) ==
    { ExplainCall("explain_with_feature_importance", n,
                  [feature_importances_ |-> fi, tree_shap |-> Null,
                   predict_proba |-> TRUE, kernel_shap |-> Null, coef_ |-> Null],
                  Null, lists) :
        fi \in NullOr(ImportanceArrays(n)), lists \in NameValueLists(n) }

ShapTreeCalls(n) ==
    { ExplainCall("explain_with_shap_tree", n,
                  [feature_importances_ |-> m[1], tree_shap |-> m[2],
                   predict_proba |-> TRUE, kernel_shap |-> Null, coef_ |-> Null],
                  Null, lists) :
        m \in NullOr(ImportanceArrays(n)) \X NullOr(SignedArrays(n)),
        lists \in NameValueLists(n) }

ShapKernelCalls(n) ==
    { ExplainCall("explain_with_shap_kernel", n,
                  [feature_importances_ |-> Null, tree_shap |-> Null,
                   predict_proba |-> m[1], kernel_shap |-> m[2], coef_ |-> m[3]],
                  background_data, lists) :
        m \in BOOLEAN \X NullOr(SignedArrays(n))
                \X NullOr(SignedArrays(n) \cup {[i \in 1..(n + 1) |-> 1]}),
        background_data \in {Null, Some(0), Some(40)},
        lists \in NameValueLists(n) }

ExplainInputs ==
    UNION { FeatureImportanceCalls(n) \cup ShapTreeCalls(n) \cup ShapKernelCalls(n) :
            n \in FeatureCounts }

InitExplain ==
    /\ AuthIdle
    /\ explain_in \in ExplainInputs
    /\ explain_out = NoCall
    /\ VoteIdle
    /\ FeatIdle
    /\ RatioIdle
    /\ ServiceConstructed
    /\ stocks = EmptyTable
    /\ ratios = EmptyTable

Explain ==
    /\ explain_in # NoCall
    /\ explain_out = NoCall
    /\ explain_out' =
          CASE explain_in.entry = "explain_with_feature_importance" ->
                   explain_with_feature_importance(explain_in.model,
                       explain_in.feature_names, explain_in.feature_values)
            [] explain_in.entry = "explain_with_shap_tree" ->
                   explain_with_shap_tree(explain_in.model,
                       explain_in.feature_names, explain_in.feature_values)
            [] OTHER ->
                   explain_with_shap_kernel(explain_in.model,
                       explain_in.background_data, explain_in.features_transformed,
                       explain_in.feature_names, explain_in.feature_values)
    /\ UNCHANGED <<explain_in, voteVars, featVars, ratioVars>>
    /\ UNCHANGED <<serviceVars, authVars>>

NextExplain == Explain

SpecExplain == InitExplain /\ [][NextExplain]_vars

(***************************************************************************)
(* Overall top features: prediction_service.py, step 6 and 7 of            *)
(* predict_stock.  The list objects the three result dicts hold are the    *)
(* fields model_1, model_2, model_3 of a heap; a list created by the step  *)
(* is a further field.                                                     *)
(***************************************************************************)
MaxImpact == 2

\* FEATURE_NAMES for the features the lists below name
FEATURE_NAMES ==
    [pe_ratio |-> "PE Ratio", roe |-> "Return on Equity (ROE)",
     profit_margin |-> "Profit Margin", debt_trend |-> "Debt Trend",
     equity_growth |-> "Equity Growth", cash_trend |-> "Cash Trend",
     revenue_cagr_2y |-> "2-Year Revenue CAGR",
     ebitda_cagr_2y |-> "2-Year EBITDA CAGR", capex_trend |-> "CapEx Trend"]

\* FEATURE_NAMES.get(name, name.replace('_', ' ').title())
feature_display_name(name) ==
    IF name \in DOMAIN FEATURE_NAMES THEN FEATURE_NAMES[name] ELSE "Title " \o name

\* a + b + c: a new list, the operands untouched
list_add(heap) ==
    [name \in DOMAIN heap \cup {"all_features"} |->
        IF name = "all_features"
        THEN heap.model_1 \o heap.model_2 \o heap.model_3
        ELSE heap[name]]

\* the place list.sort gives x among entries already sorted by impact
\* descending: after every entry whose impact is not smaller
insert_by_impact(sorted, x) ==
    LET before == Cardinality({ i \in 1..Len(sorted) : sorted[i].impact >= x.impact })
    IN  SubSeq(sorted, 1, before) \o <<x>> \o SubSeq(sorted, before + 1, Len(sorted))

RECURSIVE sorted_by_impact(_, _)
sorted_by_impact(list, n) ==
    IF n = 0 THEN <<>>
    ELSE insert_by_impact(sorted_by_impact(list, n - 1), list[n])

\* the sort with reverse left out: ascending by impact
list_sort_ascending(heap, ref) ==
    LET desc == sorted_by_impact(heap[ref], Len(heap[ref]))
    IN  [heap EXCEPT ![ref] = [k \in 1..Len(desc) |-> desc[Len(desc) - k + 1]]]

\* all_features.sort(key=lambda x: x['impact'], reverse=True), in place
list_sort(heap, ref) ==
    [heap EXCEPT ![ref] = sorted_by_impact(heap[ref], Len(heap[ref]))]

\* all_features[:5]
first_five(list) == SubSeq(list, 1, Min(5, Len(list)))

\* generate_ensemble_reasoning: the sentence chosen by the recommendation
\* and, for a non-empty list, the sentence naming its first feature
generate_ensemble_reasoning(final_rec, top_features) ==
    <<Sentence(IF final_rec = "BUY" THEN "All three models indicate positive signals"
               ELSE IF final_rec = "SELL" THEN "Multiple models show concerning signals"
               ELSE "Mixed signals from the models", "")>>
    \o (IF top_features # <<>>
        THEN <<Sentence("is the most significant factor influencing this recommendation",
                        feature_display_name(top_features[1].name))>>
        ELSE <<>>)

\* steps 6 to 9 of predict_stock for the three lists of attributions: what
\* the record and the response hold
overall_top_features(heap, final_rec) ==
    LET sorted == list_sort(list_add(heap), "all_features")
        overall == first_five(sorted.all_features)
        held == [model_1_top_features |-> sorted.model_1,
                 model_2_top_features |-> sorted.model_2,
                 model_3_top_features |-> sorted.model_3,
                 overall_top_features |-> overall,
                 final_reasoning |-> generate_ensemble_reasoning(final_rec, overall)]
    IN  [prediction_data |-> held, response |-> held]

\* the features a model's explainer can name, at most three per call
TopNames ==
    [model_1 |-> <<"pe_ratio", "roe", "profit_margin">>,
     model_2 |-> <<"debt_trend", "equity_growth", "cash_trend">>,
     model_3 |-> <<"revenue_cagr_2y", "ebitda_cagr_2y", "capex_trend">>]

\* the lists an explainer returns: up to three entries, impacts descending
TopLists(key) ==
    UNION { { [k \in 1..n |-> [name |-> TopNames[key][k], value |-> k,
                               impact |-> impacts[k]]] :
                impacts \in { f \in [1..n -> 1..MaxImpact] :
                                \A k \in 1..(n - 1) : f[k] >= f[k + 1] } } :
            n \in 0..3 }

OverallInputs ==
    { [entry |-> "overall_top_features",
       heap |-> [model_1 |-> l1, model_2 |-> l2, model_3 |-> l3],
       final_rec |-> final_rec] :
        l1 \in TopLists("model_1"), l2 \in TopLists("model_2"),
        l3 \in TopLists("model_3"), final_rec \in {"BUY", "HOLD", "SELL"} }

InitOverall ==
    /\ AuthIdle
    /\ explain_in \in OverallInputs
    /\ explain_out = NoCall
    /\ VoteIdle
    /\ FeatIdle
    /\ RatioIdle
    /\ ServiceConstructed
    /\ stocks = EmptyTable
    /\ ratios = EmptyTable

OverallTopFeatures ==
    /\ explain_in # NoCall
    /\ explain_out = NoCall
    /\ explain_out' = overall_top_features(explain_in.heap, explain_in.final_rec)
    /\ UNCHANGED <<explain_in, voteVars, featVars, ratioVars, serviceVars, authVars>>

NextOverall == OverallTopFeatures

SpecOverall == InitOverall /\ [][NextOverall]_vars

(***************************************************************************)
(* Concurrent predictions: calls of predict_stock running as coroutines of *)
(* one event loop.  A call runs from one await to the next without         *)
(* interruption: the two lookups, then inference, vote, save and response. *)
(* Its local variables are held in calls[p].                               *)
(***************************************************************************)
StockXYZ ==
    [StockABC EXCEPT !.id = 2, !.ticker = "XYZ", !.pe_ratio = Some(FromInt(30)),
                     !.debt_equity = Some(FromInt(2))]

RatiosXYZ ==
    [RatiosABC EXCEPT !.id = 2, !.stock_id = 2, !.ticker = "XYZ",
                      !.revenue_growth_1y = Some(FromInt(5)),
                      !.leverage_change = Some(FromInt(1)),
                      !.revenue_cagr_2y = Some(FromInt(6))]

\* a started service whose database holds two stocks with their ratios
InitPredicts ==
    /\ AuthIdle
    /\ models = load_models(EmptyTable,
                    [base |-> TRUE, folder |-> [k \in RangeOf(ModelKeys) |-> "ok"]]).models
    /\ last_load = NoCall
    /\ health_resp = NoCall
    /\ stocks = [i \in {1, 2} |-> IF i = 1 THEN StockABC ELSE StockXYZ]
    /\ ratios = [i \in {1, 2} |-> IF i = 1 THEN RatiosABC ELSE RatiosXYZ]
    /\ predictions = <<>>
    /\ last_predict = NoCall
    /\ last_read = NoCall
    /\ id_seq = [stocks |-> 3, ratios |-> 3]
    /\ calls = [p \in Procs |-> Idle]
    /\ calls_started = 0
    /\ stock_resp = NoCall
    /\ VoteIdle
    /\ FeatIdle
    /\ RatioIdle
    /\ ExplainIdle

ConcurrentTickers == {"ABC", "xyz", "QQQ"}

\* the locals of the call started last, as if the calls shared them
request_locals_shared(p) ==
    LET running == { q \in Procs : calls[q].op = "predict_stock" }
    IN  calls[CHOOSE q \in running : \A r \in running : calls[r].seq <= calls[q].seq]

\* the local variables (ticker, user_id, stock, ratios) of call p
request_locals(p) == calls[p]

\* steps 1 and 2 of predict_stock: the lookups; a 404 or 400 ends the call
PredictLookup(p) ==
    /\ calls[p] = Idle
    /\ calls_started < MaxCalls
    /\ calls_started' = calls_started + 1
    /\ \E ticker \in ConcurrentTickers, user_id \in UserIds,
          inference \in InferenceOutcomes :
         LET stock == get_stock_by_ticker(stocks, ticker)
             ratio_row == get_stock_ratios(ratios, stock.id)
         IN  IF stock = NoRow \/ ratios_missing(ratio_row)
             THEN /\ \E outcome \in predict_stock(stocks, ratios, predictions, models,
                                                  ticker, user_id, inference, NoFailure) :
                        last_predict' = [ticker |-> ticker, user_id |-> user_id,
                                         inference |-> inference,
                                         loaded_keys |-> DOMAIN models,
                                         records_before |-> Len(predictions)] @@ outcome
                  /\ UNCHANGED calls
             ELSE /\ calls' = [calls EXCEPT ![p] =
                                  [op |-> "predict_stock", seq |-> calls_started + 1,
                                   ticker |-> ticker, user_id |-> user_id,
                                   inference |-> inference, stock |-> stock,
                                   ratio_row |-> ratio_row]]
                  /\ UNCHANGED last_predict
    /\ UNCHANGED <<models, last_load, health_resp, stocks, ratios, predictions,
                   last_read, id_seq, stock_resp>>
    /\ UNCHANGED <<pureVars, authVars>>

\* steps 3 to 9 of predict_stock on the rows the call looked up
PredictRun(p) ==
    /\ calls[p].op = "predict_stock"
    /\ LET c == request_locals(p)
       IN  \E outcome \in predict_stock([i \in {c.stock.id} |-> c.stock],
                                        [i \in {c.ratio_row.id} |-> c.ratio_row],
                                        predictions, models, c.ticker, c.user_id,
                                        c.inference, NoFailure) :
              /\ last_predict' = [ticker |-> calls[p].ticker,
                                  user_id |-> calls[p].user_id,
                                  inference |-> calls[p].inference,
                                  loaded_keys |-> DOMAIN models,
                                  records_before |-> Len(predictions)] @@ outcome
              /\ predictions' = insert_rows(predictions, outcome.saved)
    /\ calls' = [calls EXCEPT ![p] = Idle]
    /\ UNCHANGED <<models, last_load, health_resp, stocks, ratios, last_read,
                   id_seq, calls_started, stock_resp>>
    /\ UNCHANGED <<pureVars, authVars>>

NextPredicts == \E p \in Procs : PredictLookup(p) \/ PredictRun(p)

SpecPredicts == InitPredicts /\ [][NextPredicts]_vars

(***************************************************************************)
(* Stock management: calls of create_stock, update_stock and delete_stock. *)
(* A call advances from one database round trip to the next; between two   *)
(* of its steps the steps of another call in progress can run.             *)
(***************************************************************************)
Fundamentals(assignment) ==
    [name \in FundNames |->
        IF name \in DOMAIN assignment THEN assignment[name] ELSE Null]

TypicalFundamentals ==
    Fundamentals([revenue_per_share_2023 |-> Some(FromInt(1)),
                  revenue_per_share_2024 |-> Some(FromInt(2)),
                  revenue_per_share_2025 |-> Some(FromInt(2)),
                  book_value_per_share_2023 |-> Some(FromInt(1)),
                  book_value_per_share_2024 |-> Some(FromInt(2)),
                  book_value_per_share_2025 |-> Some(FromInt(2)),
                  debt_per_share_2024 |-> Some(FromInt(1)),
                  debt_per_share_2025 |-> Some(FromInt(2))])

\* StockCreate requests
CreateRequests(tickers, fundamentals) ==
    { [ticker |-> t] @@ f : t \in tickers, f \in fundamentals }

\* StockUpdate requests (every field not listed is None)
UpdateBookValueToZero == [book_value_per_share_2024 |-> Some(FromInt(0)),
                          cash_per_share_2025 |-> Null]
UpdateDebt == [debt_per_share_2025 |-> Some(FromInt(1))]
UpdateRevenueToHuge == [revenue_per_share_2024 |-> Some(FromInt(-1)),
                        revenue_per_share_2025 |-> Some(FromInt(Huge))]

AdminId == 1
StockIds == 1..MaxCalls

InFlight == { p \in Procs : calls[p] # Idle }

\* a new call can start in process p: at most `limit` calls run at a time
CanStart(p, limit) ==
    /\ calls[p] = Idle
    /\ Cardinality(InFlight) < limit
    /\ calls_started < MaxCalls

\* stock management leaves the models and the predictions alone
StockFrame ==
    /\ UNCHANGED <<models, last_load, health_resp, predictions, last_predict, last_read>>
    /\ UNCHANGED <<pureVars, authVars>>

Respond(p, result) ==
    /\ calls' = [calls EXCEPT ![p] = Idle]
    /\ stock_resp' = result

\* create_stock up to its first lookup: 400 when the ticker exists
CreateStockCheck(p, limit, requests) ==
    /\ StockFrame
    /\ CanStart(p, limit)
    /\ calls_started' = calls_started + 1
    /\ UNCHANGED <<stocks, ratios, id_seq>>
    /\ \E stock_data \in requests :
          LET existing == get_stock_by_ticker(stocks, stock_data.ticker)
          IN  IF existing # NoRow
              THEN Respond(p, StockResult("create_stock", 400,
                                          <<"already exists", stock_data.ticker>>,
                                          0, stock_data.ticker))
              ELSE /\ calls' = [calls EXCEPT ![p] =
                                   [op |-> "create_stock", pc |-> "insert",
                                    stock_data |-> stock_data]]
                   /\ UNCHANGED stock_resp

\* create_stock: repository.create_stock(stock_dict)
CreateStockInsert(p) ==
    /\ StockFrame
    /\ calls[p] # Idle
    /\ calls[p].op = "create_stock"
    /\ calls[p].pc = "insert"
    /\ UNCHANGED calls_started
    /\ \E db_ok \in BOOLEAN :
          LET r == repo_create_stock(stocks, ratios, id_seq,
                                     stock_dict(calls[p].stock_data, AdminId))
          IN  IF ~db_ok \/ r.raised
              THEN /\ UNCHANGED <<stocks, ratios, id_seq>>
                   /\ Respond(p, StockResult("create_stock", 500,
                                             <<"Error creating stock",
                                               IF r.raised THEN "IntegrityError"
                                               ELSE "commit">>,
                                             0, calls[p].stock_data.ticker))
              ELSE /\ stocks' = r.stocks
                   /\ ratios' = r.ratios
                   /\ id_seq' = r.seq
                   /\ calls' = [calls EXCEPT ![p] =
                                   [op |-> "create_stock", pc |-> "ratios",
                                    stock |-> r.row]]
                   /\ UNCHANGED stock_resp

\* update_stock up to the commit of the fundamentals: 404 when the stock is
\* not there
UpdateStockWrite(p, limit, requests) ==
    /\ StockFrame
    /\ CanStart(p, limit)
    /\ calls_started' = calls_started + 1
    /\ \E stock_id \in StockIds, update_data \in requests, db_ok \in BOOLEAN :
          LET existing == get_stock_by_id(stocks, stock_id)
              r == repo_update_stock(stocks, ratios, id_seq, stock_id,
                                     update_dict(update_data))
          IN  IF existing = NoRow
              THEN /\ UNCHANGED <<stocks, ratios, id_seq>>
                   /\ Respond(p, StockResult("update_stock", 404, <<"Stock not found">>,
                                             stock_id, ""))
              ELSE IF ~db_ok
              THEN /\ UNCHANGED <<stocks, ratios, id_seq>>
                   /\ Respond(p, StockResult("update_stock", 500,
                                             <<"Error updating stock", "commit">>,
                                             stock_id, existing.ticker))
              ELSE /\ stocks' = r.stocks
                   /\ ratios' = r.ratios
                   /\ id_seq' = r.seq
                   /\ calls' = [calls EXCEPT ![p] =
                                   [op |-> "update_stock", pc |-> "ratios",
                                    stock |-> r.row]]
                   /\ UNCHANGED stock_resp

\* _calculate_and_store_ratios(stock) on the stock the call read back, and
\* the result of create_stock or update_stock; db_ok is whether the commit
\* of the ratios succeeds
StoreRatios(p, db_outcomes) ==
    /\ StockFrame
    /\ calls[p] # Idle
    /\ calls[p].pc = "ratios"
    /\ UNCHANGED calls_started
    /\ \E db_ok \in db_outcomes :
          LET stock == calls[p].stock
              op == calls[p].op
              ratio_data == calculate_ratios(stock)
              r == update_stock_ratios(stocks, ratios, id_seq, stock.id, ratio_data)
          IN  IF IsRaise(ratio_data)
              THEN /\ UNCHANGED <<stocks, ratios, id_seq>>
                   /\ Respond(p, StockResult(op, 500, <<"Error", "OverflowError">>,
                                             stock.id, stock.ticker))
              ELSE IF ~db_ok \/ r.raised
              THEN /\ UNCHANGED <<stocks, ratios, id_seq>>
                   /\ Respond(p, StockResult(op, 500, <<"Error", "commit">>,
                                             stock.id, stock.ticker))
              ELSE /\ stocks' = r.stocks
                   /\ ratios' = r.ratios
                   /\ id_seq' = r.seq
                   /\ Respond(p, StockResult(op, 200, <<>>, stock.id, stock.ticker))

\* delete_stock(stock_id, hard_delete); db_ok is whether the commit succeeds
DeleteStock(p, limit, db_outcomes) ==
    /\ StockFrame
    /\ CanStart(p, limit)
    /\ calls_started' = calls_started + 1
    /\ \E stock_id \in StockIds, hard_delete \in BOOLEAN, db_ok \in db_outcomes :
          LET r == IF hard_delete
                   THEN hard_delete_stock(stocks, ratios, id_seq, stock_id)
                   ELSE repo_delete_stock(stocks, ratios, id_seq, stock_id)
              op == IF hard_delete THEN "hard_delete_stock" ELSE "delete_stock"
          IN  IF r.row = NoRow
              THEN /\ UNCHANGED <<stocks, ratios, id_seq>>
                   /\ Respond(p, StockResult(op, 404, <<"Stock not found">>, stock_id, ""))
              ELSE IF ~db_ok \/ r.raised
              THEN /\ UNCHANGED <<stocks, ratios, id_seq>>
                   /\ Respond(p, StockResult(op, 500,
                                             <<"Error deleting stock",
                                               IF r.raised THEN "IntegrityError"
                                               ELSE "commit">>,
                                             stock_id, r.row.ticker))
              ELSE /\ stocks' = r.stocks
                   /\ ratios' = r.ratios
                   /\ id_seq' = r.seq
                   /\ Respond(p, StockResult(op, 200, <<>>, stock_id, r.row.ticker))

\* an empty database behind a constructed service
InitStock ==
    /\ AuthIdle
    /\ models = EmptyTable
    /\ last_load = NoCall
    /\ health_resp = NoCall
    /\ predictions = <<>>
    /\ last_predict = NoCall
    /\ last_read = NoCall
    /\ stocks = EmptyTable
    /\ ratios = EmptyTable
    /\ id_seq = [stocks |-> 0, ratios |-> 0]
    /\ calls = [p \in Procs |-> Idle]
    /\ calls_started = 0
    /\ stock_resp = NoCall
    /\ VoteIdle
    /\ FeatIdle
    /\ RatioIdle
    /\ ExplainIdle

\* one call at a time, on stocks with and without fundamentals
SequentialCreates ==
    CreateRequests({"ABC", "abc"}, {TypicalFundamentals, Fundamentals(<<>>)})

SequentialUpdates == {UpdateBookValueToZero, UpdateDebt, UpdateRevenueToHuge}

NextStock ==
    \/ CreateStockCheck(1, 1, SequentialCreates)
    \/ CreateStockInsert(1)
    \/ UpdateStockWrite(1, 1, SequentialUpdates)
    \/ StoreRatios(1, BOOLEAN)
    \/ DeleteStock(1, 1, BOOLEAN)

SpecStock == InitStock /\ [][NextStock]_vars

\* two processes whose calls interleave
ConcurrentCreates == CreateRequests({"ABC", "abc", "XYZ"}, {TypicalFundamentals})

ConcurrentUpdates == {UpdateDebt}

NextStockConcurrent ==
    \E p \in Procs :
        \/ CreateStockCheck(p, 2, ConcurrentCreates)
        \/ CreateStockInsert(p)
        \/ UpdateStockWrite(p, 2, ConcurrentUpdates)
        \/ StoreRatios(p, BOOLEAN)
        \/ DeleteStock(p, 2, BOOLEAN)

SpecStockConcurrent == InitStock /\ [][NextStockConcurrent]_vars

(***************************************************************************)
(* The life of a stock: a started service with an empty database, one      *)
(* stock-management call at a time on the ticker ABC, predictions on it,   *)
(* and a database whose delete and ratio commits do not fail               *)
(***************************************************************************)
InitLifecycle ==
    /\ AuthIdle
    /\ models = load_models(EmptyTable,
                    [base |-> TRUE, folder |-> [k \in RangeOf(ModelKeys) |-> "ok"]]).models
    /\ last_load = NoCall
    /\ health_resp = NoCall
    /\ predictions = <<>>
    /\ last_predict = NoCall
    /\ last_read = NoCall
    /\ stocks = EmptyTable
    /\ ratios = EmptyTable
    /\ id_seq = [stocks |-> 0, ratios |-> 0]
    /\ calls = [p \in Procs |-> Idle]
    /\ calls_started = 0
    /\ stock_resp = NoCall
    /\ VoteIdle
    /\ FeatIdle
    /\ RatioIdle
    /\ ExplainIdle

LifecycleCreates == CreateRequests({"abc"}, {TypicalFundamentals})

LifecyclePredict == PredictStockOf(MaxRecords, {"ABC"}, {NoFailure})

NextLifecycle ==
    \/ CreateStockCheck(1, 1, LifecycleCreates)
    \/ CreateStockInsert(1)
    \/ StoreRatios(1, {TRUE})
    \/ DeleteStock(1, 1, {TRUE})
    \/ LifecyclePredict

SpecLifecycle == InitLifecycle /\ [][NextLifecycle]_vars

(***************************************************************************)
(* Sessions: two users, sessions created, validated, logged out, users     *)
(* deleted, days passing                                                   *)
(***************************************************************************)
AuthFrame ==
    /\ UNCHANGED serviceVars
    /\ UNCHANGED pureVars

InitAuth ==
    /\ users = Accounts
    /\ sessions = EmptyTable
    /\ now = 0
    /\ auth_log = NoAuthLog
    /\ last_auth = NoCall
    /\ ServiceConstructed
    /\ stocks = EmptyTable
    /\ ratios = EmptyTable
    /\ VoteIdle
    /\ FeatIdle
    /\ RatioIdle
    /\ ExplainIdle

\* UserService.create_session(user_email)
CreateSession ==
    /\ AuthFrame
    /\ Len(auth_log.issued) < MaxSessions
    /\ \E user_email \in RangeOf(Emails) :
         LET session_id == Len(auth_log.issued) + 1
         IN  /\ sessions' = create_session(sessions, user_email, session_id, now)
             /\ auth_log' = [auth_log EXCEPT !.issued =
                                Append(@, [user_mail |-> user_email, created_at |-> now])]
    /\ last_auth' = NoCall
    /\ UNCHANGED <<users, now>>

\* UserService.validate_session(session_id)
ValidateSession ==
    /\ AuthFrame
    /\ \E session_id \in 1..(MaxSessions + 1) :
         last_auth' = [session_id |-> session_id]
                      @@ validate_session(users, sessions, session_id, now)
    /\ UNCHANGED <<users, sessions, now, auth_log>>

\* UserService.logout_user(session_id): 500 "Logout failed" when the session
\* is not found or the delete raises
LogoutUser ==
    /\ AuthFrame
    /\ \E session_id \in 1..(MaxSessions + 1), db_ok \in BOOLEAN :
         LET session == get_session_by_id(sessions, session_id)
         IN  IF session = NoRow \/ ~db_ok
             THEN UNCHANGED <<sessions, auth_log>>
             ELSE /\ sessions' = delete_session(sessions, session)
                  /\ auth_log' = [auth_log EXCEPT !.logged_out = @ \cup {session_id}]
    /\ last_auth' = NoCall
    /\ UNCHANGED <<users, now>>

\* UserService.delete_user(user_id): 404 when the user is not found, 500 and
\* a rollback when the database raises
DeleteUser ==
    /\ AuthFrame
    /\ \E user_id \in DOMAIN Accounts, db_ok \in BOOLEAN :
         LET user == get_user_by_id(users, user_id)
             r == repo_delete_user(users, sessions, user)
         IN  IF user = NoRow \/ ~db_ok
             THEN UNCHANGED <<users, sessions, auth_log>>
             ELSE /\ users' = r.users
                  /\ sessions' = r.sessions
                  /\ auth_log' = [auth_log EXCEPT !.deleted = @ \cup {user.email}]
    /\ last_auth' = NoCall
    /\ UNCHANGED now

\* a day passes
Tick ==
    /\ AuthFrame
    /\ now < MaxTime
    /\ now' = now + 1
    /\ last_auth' = NoCall
    /\ UNCHANGED <<users, sessions, auth_log>>

NextAuth == CreateSession \/ ValidateSession \/ LogoutUser \/ DeleteUser \/ Tick

SpecAuth == InitAuth /\ [][NextAuth]_vars

(***************************************************************************)
(* Two processes updating the stock ABC, whose ratios are stored, with a   *)
(* database that does not fail                                             *)
(***************************************************************************)
CreatedABC ==
    repo_create_stock(EmptyTable, EmptyTable, [stocks |-> 0, ratios |-> 0],
                      stock_dict([ticker |-> "abc"] @@ TypicalFundamentals, AdminId))

\* the tables after create_stock returned 200 for ABC
StoredABC ==
    update_stock_ratios(CreatedABC.stocks, CreatedABC.ratios, CreatedABC.seq,
                        CreatedABC.row.id, calculate_ratios(CreatedABC.row))

InitUpdates ==
    /\ AuthIdle
    /\ models = EmptyTable
    /\ last_load = NoCall
    /\ health_resp = NoCall
    /\ predictions = <<>>
    /\ last_predict = NoCall
    /\ last_read = NoCall
    /\ stocks = StoredABC.stocks
    /\ ratios = StoredABC.ratios
    /\ id_seq = StoredABC.seq
    /\ calls = [p \in Procs |-> Idle]
    /\ calls_started = 0
    /\ stock_resp = NoCall
    /\ VoteIdle
    /\ FeatIdle
    /\ RatioIdle
    /\ ExplainIdle

RacingUpdates == {UpdateBookValueToZero, UpdateDebt}

NextUpdates ==
    \E p \in Procs :
        \/ UpdateStockWrite(p, 2, RacingUpdates)
        \/ StoreRatios(p, {TRUE})

SpecUpdates == InitUpdates /\ [][NextUpdates]_vars

(***************************************************************************)
(* Statements about the voter                                              *)
(***************************************************************************)
RubricVal == [undervalued |-> 1, fair |-> -1, overvalued |-> -1]
RubricHealth == [excellent |-> 1, fair |-> 0, poor |-> -1]
RubricGrowth == [strong_growth |-> 1, moderate_growth |-> 1,
                 weak_growth |-> 0, declining |-> -1]
RubricScore(rubric, label) == IF label \in DOMAIN rubric THEN rubric[label] ELSE 0
RubricTotal(in) ==
    RubricScore(RubricVal, in.val_pred) + RubricScore(RubricHealth, in.health_pred)
        + RubricScore(RubricGrowth, in.growth_pred)

\* C1: for every triple of labels (recognized or not) the total is the sum of
\* the three rubric scores, lies in [-3, 3], and the recommendation is BUY iff
\* total >= 2, SELL iff total <= -2, HOLD otherwise.
C1_VoteIsRubricSum ==
    vote_out # NoCall =>
        LET t == RubricTotal(vote_in)
        IN  /\ total_score(vote_in.val_pred, vote_in.health_pred, vote_in.growth_pred) = t
            /\ t \in -3..3
            /\ vote_out.recommendation = "BUY" <=> t >= 2
            /\ vote_out.recommendation = "SELL" <=> t <= -2
            /\ vote_out.recommendation = "HOLD" <=> (t > -2 /\ t < 2)

\* a vote on two recognized labels and one unrecognized label that reaches BUY
C1_Witness ==
    /\ vote_out # NoCall
    /\ vote_in.val_pred = "undervalued"
    /\ vote_in.health_pred = "excellent"
    /\ vote_in.growth_pred = "unknown"
    /\ vote_out.recommendation = "BUY"

\* str.lower() on the labels of the model
Lower(label) ==
    CASE label = "UNDERVALUED"     -> "undervalued"
      [] label = "FAIR"            -> "fair"
      [] label = "OVERVALUED"      -> "overvalued"
      [] label = "EXCELLENT"       -> "excellent"
      [] label = "POOR"            -> "poor"
      [] label = "STRONG_GROWTH"   -> "strong_growth"
      [] label = "MODERATE_GROWTH" -> "moderate_growth"
      [] label = "WEAK_GROWTH"     -> "weak_growth"
      [] label = "DECLINING"       -> "declining"
      [] OTHER                     -> label

\* C2: labels are matched case-insensitively: every casing of a label scores
\* as its lowercase form, so (UNDERVALUED, EXCELLENT, STRONG_GROWTH) votes BUY
\* and (OVERVALUED, POOR, DECLINING) votes SELL.
C2_CaseInsensitiveMatching ==
    vote_out # NoCall =>
        LET t == RubricTotal([val_pred    |-> Lower(vote_in.val_pred),
                              health_pred |-> Lower(vote_in.health_pred),
                              growth_pred |-> Lower(vote_in.growth_pred)])
        IN  /\ total_score(vote_in.val_pred, vote_in.health_pred, vote_in.growth_pred) = t
            /\ vote_out.recommendation = recommendation_of(t)

\* C3: for all labels and all confidences in [0, 1] the final confidence lies
\* in [0, 0.95].
C3_ConfidenceRange ==
    vote_out # NoCall => vote_out.confidence \in 0..95

\* the upper end of the range is reached
C3_Witness ==
    /\ vote_out # NoCall
    /\ vote_out.confidence = 95

IsConf(c, p, q) == c.n * q = p * c.d

Agreement(t) ==
    IF t >= 2 THEN Min(95, 85 + (t - 2) * 5)
    ELSE IF t <= -2 THEN Min(95, 85 + Abs(t + 2) * 5)
    ELSE Min(95, 75 + Abs(t) * 5)

\* C4: the final confidence is (agreement + mean of the three confidences) / 2
\* rounded to 2 decimals (at most half a hundredth from the exact value), with
\* the agreement of the recommendation's branch; a total of 3 with confidences
\* (0.8, 0.9, 0.7) gives BUY with 0.85.
C4_BlendedConfidence ==
    vote_out # NoCall =>
        LET t == RubricTotal(vote_in)
            vc == vote_in.val_conf
            hc == vote_in.health_conf
            gc == vote_in.growth_conf
            D == 3 * vc.d * hc.d * gc.d
            N == vc.n * hc.d * gc.d + hc.n * vc.d * gc.d + gc.n * vc.d * hc.d
            \* twice the exact value in hundredths is (Agreement * D + 100 * N) / D
            c == vote_out.confidence
        IN  /\ Abs(2 * c * D - (Agreement(t) * D + 100 * N)) <= D
            /\ (t = 3 /\ IsConf(vc, 8, 10) /\ IsConf(hc, 9, 10) /\ IsConf(gc, 7, 10))
                 => (vote_out.recommendation = "BUY" /\ c = 85)

\* the scenario of the spec: three positive labels, confidences 0.8, 0.9, 0.7
C4_Witness ==
    /\ vote_out # NoCall
    /\ vote_in.val_pred = "undervalued"
    /\ vote_in.health_pred = "excellent"
    /\ vote_in.growth_pred = "strong_growth"
    /\ IsConf(vote_in.val_conf, 8, 10)
    /\ IsConf(vote_in.health_conf, 9, 10)
    /\ IsConf(vote_in.growth_conf, 7, 10)
    /\ vote_out.confidence = 85

(***************************************************************************)
(* Statements about the feature assemblers                                 *)
(***************************************************************************)
FixedNames(model) ==
    CASE model = 1 -> <<"pe_ratio", "pb_ratio", "roe", "debt_equity", "profit_margin">>
      [] model = 2 -> <<"revenue_growth_1y", "ebitda_growth_1y", "equity_growth",
                        "debt_trend", "cash_trend", "working_capital_trend",
                        "leverage_change", "debt_to_equity_2025">>
      [] OTHER     -> <<"revenue_cagr_2y", "ebitda_cagr_2y", "book_value_cagr_2y",
                        "revenue_volatility", "ebitda_volatility",
                        "revenue_acceleration", "ebitda_acceleration",
                        "capex_trend", "working_capital_trend_2y">>

FixedLength(model) == CASE model = 1 -> 5 [] model = 2 -> 8 [] OTHER -> 9

ValueOrZero(obj, name) ==
    IF name \in DOMAIN obj /\ obj[name] # Null THEN obj[name][1] ELSE Zero

\* C5: each assembler returns a vector of fixed length (5, 8, 9) whose i-th
\* entry is the record's value for the i-th fixed name, or 0.0 when that field
\* is null or absent, never null; the name list is the fixed list and
\* mapping[names[i]] = vector[i].
C5_FeatureVector ==
    feat_out # NoCall =>
        LET names == FixedNames(feat_in.model)
            n == FixedLength(feat_in.model)
        IN  /\ feat_out.feature_names = names
            /\ Len(names) = n
            /\ DOMAIN feat_out.features = 1..n
            /\ \A i \in 1..n :
                /\ DOMAIN feat_out.features[i] = {"n", "d"}
                /\ feat_out.features[i] = ValueOrZero(feat_in.obj, names[i])
                /\ names[i] \in DOMAIN feat_out.feature_dict
                /\ feat_out.feature_dict[names[i]] = feat_out.features[i]
            /\ DOMAIN feat_out.feature_dict = RangeOf(names)

\* model 1 on a record with a null field, an absent field and a number
C5_Witness ==
    /\ feat_out # NoCall
    /\ feat_in.model = 1
    /\ "pe_ratio" \in DOMAIN feat_in.obj
    /\ feat_in.obj["pe_ratio"] = Null
    /\ "roe" \notin DOMAIN feat_in.obj
    /\ "pb_ratio" \in DOMAIN feat_in.obj
    /\ feat_in.obj["pb_ratio"] \notin {Null, Some(Zero)}
    /\ feat_out.features[1] = Zero
    /\ feat_out.features[2] # Zero
    /\ feat_out.features[3] = Zero

(***************************************************************************)
(* Statements about predict_stock.  The stock tables do not change in      *)
(* Spec, and last_predict is the trace of the latest call, so a statement  *)
(* about a call is a statement about last_predict and the tables.          *)
(***************************************************************************)
AllKeys == RangeOf(ModelKeys)
MissingKeys(loaded) == AllKeys \ loaded

\* the first key, in the order the models are run, that the registry lacks
FirstMissing(loaded) ==
    ModelKeys[CHOOSE i \in 1..Len(ModelKeys) :
                 /\ ModelKeys[i] \notin loaded
                 /\ \A j \in 1..(i - 1) : ModelKeys[j] \in loaded]

StockOfRequest(ticker) == { t \in DOMAIN stocks : stocks[t].ticker = Upper(ticker) }
RatiosOfRequest(ticker) ==
    { i \in DOMAIN ratios :
        \E t \in StockOfRequest(ticker) : stocks[t].id = ratios[i].stock_id }

NoSubstitution(used, loaded) ==
    \A i \in 1..Len(used) :
        /\ used[i].slot \in loaded
        /\ used[i].artifact = used[i].slot

NothingPersisted ==
    /\ last_predict.saved = <<>>
    /\ Len(predictions) = last_predict.records_before

\* C6 as stated: whenever a key is absent from the registry when predict_stock
\* runs, the request ends with an error reporting that that model is not
\* loaded, nothing is substituted, persisted or returned as an ensemble result.
C6_AbsentKeyReportsNotLoaded ==
    (last_predict # NoCall /\ MissingKeys(last_predict.loaded_keys) # {}) =>
        /\ \E key \in MissingKeys(last_predict.loaded_keys) :
               last_predict.error = <<"Prediction error", "Model not loaded", key>>
        /\ NoSubstitution(last_predict.used, last_predict.loaded_keys)
        /\ NothingPersisted
        /\ last_predict.data = NoData

\* C6, amended: whenever a key is absent, no other model's artifact is used in
\* place of a missing one, no record is persisted and no ensemble result is
\* returned; and when the request reaches the lookup of the first missing model
\* (the stock and its ratios exist and no earlier stage raised) it ends with
\* status 500 reporting that this model is not loaded.
C6_MissingModelAborts ==
    (last_predict # NoCall /\ MissingKeys(last_predict.loaded_keys) # {}) =>
        /\ NoSubstitution(last_predict.used, last_predict.loaded_keys)
        /\ NothingPersisted
        /\ last_predict.data = NoData
        /\ last_predict.status_code # 200
        /\ ( /\ StockOfRequest(last_predict.ticker) # {}
             /\ RatiosOfRequest(last_predict.ticker) # {}
             /\ last_predict.raised_at[1] \in {"none", "get_model"} )
           => /\ last_predict.status_code = 500
              /\ last_predict.error =
                    <<"Prediction error", "Model not loaded",
                      FirstMissing(last_predict.loaded_keys)>>

\* model_1 is loaded and used, model_2 is missing and the request aborts on it
C6_Witness ==
    /\ last_predict # NoCall
    /\ last_predict.loaded_keys = {"model_1"}
    /\ last_predict.status_code = 500
    /\ last_predict.error = <<"Prediction error", "Model not loaded", "model_2">>
    /\ Len(last_predict.used) = 1
    /\ last_predict.used[1].slot = "model_1"
    /\ last_predict.used[1].artifact = "model_1"
    /\ last_predict.used[1].features
         = <<FromInt(15), FromInt(1), FromInt(18), Zero, FromInt(12)>>
    /\ predictions = <<>>

\* C7: 404 when no stock has the requested ticker, 400 when the stock has no
\* ratios record (the lookup itself having answered); in both cases no model
\* inference runs and nothing is persisted, and the stock check comes first
\* (a 404 is returned before any ratio lookup).
C7_NotFoundThenNoRatios ==
    last_predict # NoCall =>
        /\ ( /\ StockOfRequest(last_predict.ticker) = {}
             /\ last_predict.raised_at # Stage("stock_lookup") )
           => /\ last_predict.status_code = 404
              /\ last_predict.stages = <<Stage("stock_lookup")>>
              /\ last_predict.used = <<>>
              /\ NothingPersisted
        /\ ( /\ StockOfRequest(last_predict.ticker) # {}
             /\ RatiosOfRequest(last_predict.ticker) = {}
             /\ last_predict.raised_at \notin {Stage("stock_lookup"), Stage("ratio_lookup")} )
           => /\ last_predict.status_code = 400
              /\ last_predict.stages = <<Stage("stock_lookup"), Stage("ratio_lookup")>>
              /\ last_predict.used = <<>>
              /\ NothingPersisted

\* a request for a stored stock without ratios, answered 400 with all models loaded
C7_Witness ==
    /\ last_predict # NoCall
    /\ StockOfRequest(last_predict.ticker) # {}
    /\ RatiosOfRequest(last_predict.ticker) = {}
    /\ last_predict.loaded_keys = AllKeys
    /\ last_predict.status_code = 400

\* C8: predict_stock never lets an exception out: it returns a result whose
\* status_code is 200, 400, 404 or 500, and every failure other than
\* stock-not-found and ratios-absent yields 500.
C8_AlwaysAStatus ==
    last_predict # NoCall =>
        /\ last_predict.kind = "return"
        /\ last_predict.status_code \in {200, 400, 404, 500}
        /\ last_predict.raised_at # NoFailure => last_predict.status_code = 500
        /\ last_predict.status_code = 404 => StockOfRequest(last_predict.ticker) = {}
        /\ last_predict.status_code = 400 => RatiosOfRequest(last_predict.ticker) = {}
        /\ last_predict.status_code = 200 => last_predict.raised_at = NoFailure

\* the commit of the prediction row raises and the call answers 500
C8_Witness ==
    /\ last_predict # NoCall
    /\ last_predict.raised_at = Stage("commit")
    /\ last_predict.kind = "return"
    /\ last_predict.status_code = 500

\* the three inferences and the vote succeeded and create_prediction raised
PersistenceFailed ==
    /\ last_predict # NoCall
    /\ last_predict.raised_at \in {Stage("commit"), Stage("refresh")}

\* C20: when create_prediction raises after the three inferences and the
\* vote succeeded, predict_stock still returns the data shaped from them,
\* and its result differs from the 500 "Prediction error" that a failure of
\* any other stage gives.
C20_PersistenceFailureKeepsResults ==
    PersistenceFailed =>
        /\ last_predict.data # NoData
        /\ ~(last_predict.status_code = 500 /\ last_predict.error[1] = "Prediction error")

C10_FailedLoadIsUnhealthy ==
    (last_load # NoCall /\ last_load.result = FALSE) => ~health_check(models)

(***************************************************************************)
(* Statements about the prediction history                                 *)
(***************************************************************************)
IsDetailCall == last_read # NoCall /\ last_read.call = "get_prediction_by_id"

\* the row a detail request asked for, present in the table since before it
RequestedRow == predictions[last_read.prediction_id]

\* C11: for a record owned by user A and a requester B # A (the lookup having
\* answered) get_prediction_by_id returns 403 "Access denied" with no data
\* key, the same result whatever the record holds; a result carries data only
\* when the requester's id equals the record's user_id, and the data are that
\* record's columns.
C11_ForbiddenToOthers ==
    IsDetailCall =>
        /\ ( /\ last_read.answered
             /\ last_read.prediction_id <= last_read.records_before
             /\ RequestedRow.user_id # last_read.user_id )
           => /\ last_read.status_code = 403
              /\ last_read.error = <<"Access denied">>
              /\ last_read.data = NoData
        /\ last_read.data # NoData
           => /\ last_read.status_code = 200
              /\ last_read.prediction_id <= last_read.records_before
              /\ RequestedRow.user_id = last_read.user_id
              /\ last_read.data = prediction_detail(RequestedRow)
        /\ last_read.status_code = 200 => last_read.data # NoData

\* user 1 asks for a record that user 2 owns and is refused
C11_Witness ==
    /\ IsDetailCall
    /\ last_read.prediction_id <= last_read.records_before
    /\ RequestedRow.user_id = 2
    /\ last_read.user_id = 1
    /\ last_read.answered
    /\ last_read.status_code = 403

\* C12: a step of predict_stock, get_user_predictions or get_prediction_by_id
\* keeps every existing record with all its fields, removes none, and changes
\* the table only by a predict_stock call adding one record at the end.
C12_AppendOnly ==
    [][ /\ Len(predictions') >= Len(predictions)
        /\ \A i \in 1..Len(predictions) : predictions'[i] = predictions[i]
        /\ Len(predictions') <= Len(predictions) + 1
        /\ predictions' # predictions
           => /\ last_read' = last_read
              /\ last_predict'.saved = <<predictions'[Len(predictions')]>>
              /\ last_predict'.records_before = Len(predictions)
        /\ last_read' # last_read => predictions' = predictions ]_vars

\* two records of the same user and ticker are stored, and a detail request
\* then returned the first of them
C12_Witness ==
    /\ Len(predictions) = 2
    /\ predictions[1].user_id = predictions[2].user_id
    /\ predictions[1].ticker = predictions[2].ticker
    /\ IsDetailCall
    /\ last_read.records_before = 2
    /\ last_read.status_code = 200
    /\ last_read.data.id = 1

(***************************************************************************)
(* Statements about the ratio calculator                                   *)
(***************************************************************************)
Calculated == ratio_out # NoCall /\ ~IsRaise(ratio_out)

Fund(metric, year) == ratio_in[metric \o "_per_share_" \o year]

\* the growth of a metric between two years has no value: a year is missing or
\* the earlier year is 0
GrowthUndefined(new_val, old_val) ==
    new_val = Null \/ old_val = Null \/ old_val[1].n = 0

\* v is the fraction (new - old) / old of two finite fundamentals
IsGrowthOf(v, new_val, old_val) ==
    LET new == new_val[1]
        old == old_val[1]
    IN  /\ v # Null
        /\ v[1].d > 0
        /\ v[1].n * (old.n * new.d) = v[1].d * (new.n * old.d - old.n * new.d)

GrowthFields ==
    { <<"revenue_growth_1y", "revenue">>, <<"ebitda_growth_1y", "ebitda">>,
      <<"equity_growth", "book_value">>, <<"debt_trend", "debt">>,
      <<"cash_trend", "cash">>, <<"working_capital_trend", "working_capital">>,
      <<"capex_trend", "capex">> }

\* C15: the growth helper returns the default 0.0 when old is 0 or either
\* value is null and (new - old) / old otherwise, and does not raise; the
\* seven growth and trend ratios of a computed record are never null.
C15_GrowthDefault ==
    ratio_out # NoCall =>
        /\ IsRaise(ratio_out) => ratio_out.at \notin { f[1] : f \in GrowthFields }
        /\ \A f \in GrowthFields :
              LET new_val == Fund(f[2], "2025")
                  old_val == Fund(f[2], "2024")
                  g == safe_growth(new_val, old_val)
              IN  /\ g # Null
                  /\ GrowthUndefined(new_val, old_val) => g = Some(Zero)
                  /\ ~GrowthUndefined(new_val, old_val) => IsGrowthOf(g, new_val, old_val)
                  /\ Calculated => ratio_out[f[1]] = g

\* debt fell from 2 to 1 and last year's book value was 0: -1/2 and the default
C15_Witness ==
    /\ Calculated
    /\ Fund("debt", "2024") = Some(FromInt(2))
    /\ Fund("debt", "2025") = Some(FromInt(1))
    /\ ratio_out.debt_trend = Some([n |-> -1, d |-> 2])
    /\ Fund("book_value", "2024") = Some(FromInt(0))
    /\ Fund("book_value", "2025") = Some(FromInt(2))
    /\ ratio_out.equity_growth = Some(Zero)

EitherGrowthUndefined(metric) ==
    \/ GrowthUndefined(Fund(metric, "2024"), Fund(metric, "2023"))
    \/ GrowthUndefined(Fund(metric, "2025"), Fund(metric, "2024"))

\* C16: when one of the two consecutive growth rates of revenue (of EBITDA) is
\* undefined, the computed revenue (EBITDA) volatility and acceleration are
\* null.
C16_UndefinedGrowthGivesNull ==
    Calculated =>
        /\ EitherGrowthUndefined("revenue")
           => /\ ratio_out.revenue_volatility = Null
              /\ ratio_out.revenue_acceleration = Null
        /\ EitherGrowthUndefined("ebitda")
           => /\ ratio_out.ebitda_volatility = Null
              /\ ratio_out.ebitda_acceleration = Null

CagrFields ==
    { <<"revenue_cagr_2y", "revenue">>, <<"ebitda_cagr_2y", "ebitda">>,
      <<"book_value_cagr_2y", "book_value">>,
      <<"working_capital_trend_2y", "working_capital">> }

IsNumberOrNull(v) == v = Null \/ (Len(v) = 1 /\ v[1].n \in Int /\ v[1].d \in Nat)

\* C17: the ratio computation never raises: for every combination of null,
\* zero, negative and positive fundamentals each of the 17 ratios is a number
\* or null, and a cagr is 0.0 when its end or start is null or not above 0.
C17_RatiosNeverRaise ==
    ratio_out # NoCall =>
        /\ ~IsRaise(ratio_out)
        /\ \A name \in RangeOf(RatioNames) : IsNumberOrNull(ratio_out[name])
        /\ \A f \in CagrFields :
              LET end_val == Fund(f[2], "2025")
                  start_val == Fund(f[2], "2023")
              IN  (end_val = Null \/ start_val = Null \/ end_val[1].n <= 0
                     \/ start_val[1].n <= 0)
                  => ratio_out[f[1]] = Some(Zero)

(***************************************************************************)
(* Statements about stock management                                       *)
(***************************************************************************)
TickerSpellings == {"abc", "Abc", "ABC", "xyz", "XYZ"}

\* the stock rows whose ticker is the given one when case is ignored
SameTickerIgnoringCase(tbl, ticker) ==
    { i \in DOMAIN tbl : Upper(tbl[i].ticker) = Upper(ticker) }

TickersUniqueAndUpper ==
    /\ \A i, j \in DOMAIN stocks : stocks[i].ticker = stocks[j].ticker => i = j
    /\ \A i \in DOMAIN stocks : stocks[i].ticker = Upper(stocks[i].ticker)

LookupIgnoresCase ==
    \A i \in DOMAIN stocks, t \in TickerSpellings :
        Upper(t) = stocks[i].ticker => get_stock_by_ticker(stocks, t) = stocks[i]

\* a step in which a create_stock call starts and answers at once
CreateAnsweredAtLookup ==
    /\ calls_started' = calls_started + 1
    /\ calls' = calls
    /\ stock_resp'.op = "create_stock"

\* a step in which a create_stock call starts and goes on to its insert
CreatePassedLookup(p) ==
    /\ calls[p] = Idle
    /\ calls'[p] # Idle
    /\ calls'[p].op = "create_stock"

CreateOfExistingTickerRefused ==
    /\ CreateAnsweredAtLookup =>
          /\ SameTickerIgnoringCase(stocks, stock_resp'.ticker) # {}
          /\ stock_resp'.status_code = 400
          /\ stocks' = stocks
          /\ ratios' = ratios
    /\ \A p \in Procs :
          CreatePassedLookup(p) =>
              SameTickerIgnoringCase(stocks, calls'[p].stock_data.ticker) = {}

\* C13: whatever calls of create_stock, update_stock, delete_stock and hard
\* delete ran and however their steps interleaved, no two stock rows hold the
\* same ticker, every stored ticker is in upper case and a lookup finds a
\* stock under any spelling of its ticker; a create_stock whose ticker is,
\* case ignored, the ticker of a stock that exists when the call looks it up
\* answers 400 and writes nothing, and only such a call is refused there.
C13_TickerUniqueUpperCase ==
    /\ [](TickersUniqueAndUpper /\ LookupIgnoresCase)
    /\ [][CreateOfExistingTickerRefused]_vars

\* "abc" was refused with 400 while ABC exists and another call is under
\* way, a second stock being stored as well
C13_Witness ==
    /\ stock_resp # NoCall
    /\ stock_resp.op = "create_stock"
    /\ stock_resp.status_code = 400
    /\ stock_resp.ticker = "abc"
    /\ get_stock_by_ticker(stocks, "Abc") # NoRow
    /\ InFlight # {}

\* a create_stock or update_stock call returned 200 and no call is under way
ReturnedOk ==
    /\ stock_resp # NoCall
    /\ InFlight = {}
    /\ stock_resp.op \in {"create_stock", "update_stock"}
    /\ stock_resp.status_code = 200

RatioRowsOf(stock_id) == { i \in DOMAIN ratios : ratios[i].stock_id = stock_id }

\* C14: with one call running at a time, when create_stock or update_stock
\* has returned 200 the stock has exactly one stock_ratios row, and each of
\* its 17 ratio columns holds what the ratio calculation gives for the
\* fundamentals now stored for the stock, a column being null where the
\* calculation gives null.
C14_RatiosRecomputedInFull ==
    ReturnedOk =>
        LET stock_id == stock_resp.stock_id
        IN  /\ stock_id \in DOMAIN stocks
            /\ Cardinality(RatioRowsOf(stock_id)) = 1
            /\ ~IsRaise(calculate_ratios(stocks[stock_id]))
            /\ \A i \in RatioRowsOf(stock_id), k \in 1..Len(RatioNames) :
                  ratios[i][RatioNames[k]]
                      = calculate_ratios(stocks[stock_id])[RatioNames[k]]

\* update_stock set the 2024 book value of a stock with debt to zero and
\* returned 200: the stored leverage_change, a number before, is null
C14_Witness ==
    /\ ReturnedOk
    /\ stock_resp.op = "update_stock"
    /\ stocks[stock_resp.stock_id].book_value_per_share_2024 = Some(Zero)
    /\ stocks[stock_resp.stock_id].debt_per_share_2024 # Null
    /\ stocks[stock_resp.stock_id].debt_per_share_2025 # Null
    /\ \A i \in RatioRowsOf(stock_resp.stock_id) : ratios[i].leverage_change = Null

(***************************************************************************)
(* Statements about the explainer                                          *)
(***************************************************************************)
Explainers ==
    {"explain_with_feature_importance", "explain_with_shap_tree",
     "explain_with_shap_kernel"}

ExplainerReturned == explain_out # NoCall /\ ~explain_out.raised

\* C18: whatever the arguments (background data missing or empty, no
\* predict_proba, no feature importances, no coefficients, a name or value
\* list shorter than the attribution), each of the three entry points
\* returns and no exception leaves it; what it returns is a pair of an
\* attribution list and a reason string, and the string is not empty.
C18_ExplainerNeverRaises ==
    explain_out # NoCall =>
        /\ explain_in.entry \in Explainers
        /\ ~explain_out.raised
        /\ DOMAIN explain_out.value = {"top_features", "reason"}
        /\ Len(explain_out.value.reason) > 0
        /\ \A k \in 1..Len(explain_out.value.reason) :
              \/ explain_out.value.reason[k].text # ""
              \/ explain_out.value.reason[k].feature # ""

\* explain_with_shap_kernel without background data, on a model with no
\* coefficients and a value list that is too short, returned the empty
\* attribution with a reason
C18_Witness ==
    /\ ExplainerReturned
    /\ explain_in.entry = "explain_with_shap_kernel"
    /\ explain_in.background_data = Null
    /\ explain_in.model.coef_ = Null
    /\ Len(explain_in.feature_values) < explain_in.features
    /\ explain_out.value.top_features = <<>>
    /\ Len(explain_out.value.reason) > 0

\* C19: the attribution list an entry point returns, on its own path and
\* on each fallback, has at most 3 entries, and when it is not empty exactly
\* min(3, number of features of the model); its impacts do not increase
\* from one entry to the next, no feature is named twice and no impact is
\* negative.
C19_TopThreeByImpact ==
    ExplainerReturned =>
        LET top_features == explain_out.value.top_features
            n == Len(top_features)
        IN  /\ n <= 3
            /\ n > 0 => n = Min(3, explain_in.features)
            /\ \A k \in 1..(n - 1) :
                  top_features[k].impact >= top_features[k + 1].impact
            /\ \A j, k \in 1..n :
                  top_features[j].name = top_features[k].name => j = k
            /\ \A k \in 1..n : top_features[k].impact >= 0

\* the sampling attribution failed on a model of more than 3 features with
\* coefficients: the coefficient fallback returned 3 entries of different
\* impact, the largest coming from a negative product
C19_Witness ==
    /\ ExplainerReturned
    /\ explain_in.entry = "explain_with_shap_kernel"
    /\ explain_in.model.kernel_shap = Null
    /\ explain_in.model.coef_ # Null
    /\ explain_in.features > 3
    /\ Len(explain_out.value.top_features) = 3
    /\ explain_out.value.top_features[1].impact > explain_out.value.top_features[3].impact
    /\ \E i \in 1..explain_in.features :
          /\ explain_in.model.coef_[1][i] * explain_in.features_transformed[i] < 0
          /\ explain_in.feature_names[i] = explain_out.value.top_features[1].name

\* the sampling attribution of an explain_with_shap_kernel call raised
SamplingFailed ==
    /\ ExplainerReturned
    /\ explain_in.entry = "explain_with_shap_kernel"
    /\ sampling_attribution(explain_in.model, explain_in.background_data,
                            explain_in.feature_names, explain_in.feature_values).raised

\* the ranking of the features by the absolute value of feature_values
RawValueRanking ==
    build_top_features(top_indices(abs_array(explain_in.feature_values)),
                       explain_in.feature_names, explain_in.feature_values,
                       abs_array(explain_in.feature_values))

CoefficientAttempt ==
    coefficient_attribution(explain_in.model, explain_in.features_transformed,
                            explain_in.feature_names, explain_in.feature_values)

\* C22: when the sampling attribution of explain_with_shap_kernel fails, the
\* result is the coefficient attribution if the model has coefficients and
\* that attribution succeeds, and otherwise (no coefficients, or the
\* coefficient attribution raising) the ranking by absolute raw feature
\* value; with at least one feature the returned list is not empty.
C22_FallbackOrder ==
    SamplingFailed =>
        LET top_features == explain_out.value.top_features
            by_coefficient == explain_in.model.coef_ # Null /\ ~CoefficientAttempt.raised
        IN  /\ by_coefficient => top_features = CoefficientAttempt.value.top_features
            /\ (~by_coefficient /\ ~RawValueRanking.raised) =>
                   top_features = RawValueRanking.value
            /\ explain_in.features >= 1 => top_features # <<>>

(***************************************************************************)
(* Statements about the leverage figures                                   *)
(***************************************************************************)
\* debt/equity of a year has no value: debt or book value is missing, or
\* the book value is 0
DebtEquityUndefined(year) ==
    \/ Fund("debt", year) = Null
    \/ Fund("book_value", year) = Null
    \/ Fund("book_value", year)[1].n = 0

\* v is the fraction debt / book value of the year
IsDebtEquityOf(v, year) ==
    LET debt == Fund("debt", year)[1]
        book == Fund("book_value", year)[1]
    IN  /\ v # Null
        /\ v[1].d > 0
        /\ v[1].n * (book.n * debt.d) = v[1].d * (debt.n * book.d)

\* v is debt/equity of 2025 minus debt/equity of 2024
IsLeverageChange(v) ==
    LET d25 == Fund("debt", "2025")[1]
        b25 == Fund("book_value", "2025")[1]
        d24 == Fund("debt", "2024")[1]
        b24 == Fund("book_value", "2024")[1]
    IN  /\ v # Null
        /\ v[1].d > 0
        /\ v[1].n * (b25.n * d25.d * b24.n * d24.d)
              = v[1].d * (d25.n * b25.d * b24.n * d24.d - d24.n * b24.d * b25.n * d25.d)

NullOrZero(v) == v = Null \/ v[1].n = 0

\* C24: leverage_change is null exactly when debt/equity of 2025 or of 2024
\* has no value, and is otherwise their difference; debt_to_equity_2025 is
\* null when it has no value and debt/equity of 2025 otherwise; the Model-2
\* assembler gives 0 for either ratio when it is null, as it does when it
\* is zero.
C24_LeverageNullWhenUndefined ==
    Calculated =>
        LET assembled == _prepare_model_2_features(ratio_out).feature_dict
        IN  /\ ratio_out.leverage_change = Null
                  <=> (DebtEquityUndefined("2024") \/ DebtEquityUndefined("2025"))
            /\ ratio_out.leverage_change # Null =>
                  IsLeverageChange(ratio_out.leverage_change)
            /\ ratio_out.debt_to_equity_2025 = Null <=> DebtEquityUndefined("2025")
            /\ ratio_out.debt_to_equity_2025 # Null =>
                  IsDebtEquityOf(ratio_out.debt_to_equity_2025, "2025")
            /\ NullOrZero(ratio_out.leverage_change) => assembled.leverage_change = Zero
            /\ NullOrZero(ratio_out.debt_to_equity_2025) =>
                  assembled.debt_to_equity_2025 = Zero

\* the 2024 book value is 0 and 2025 has debt 1 on book value 2:
\* leverage_change is null, debt_to_equity_2025 is 1/2, and the assembler
\* gives 0 for leverage_change
C24_Witness ==
    /\ Calculated
    /\ Fund("book_value", "2024") = Some(Zero)
    /\ Fund("debt", "2024") # Null
    /\ ratio_out.leverage_change = Null
    /\ ratio_out.debt_to_equity_2025 = Some([n |-> 1, d |-> 2])
    /\ _prepare_model_2_features(ratio_out).feature_dict.leverage_change = Zero

(***************************************************************************)
(* Statements about concurrent updates                                     *)
(***************************************************************************)
\* the 17 stored ratios of the stock are the calculation on its stored
\* fundamentals
RatiosCurrent(stock_id) ==
    /\ ~IsRaise(calculate_ratios(stocks[stock_id]))
    /\ \A i \in RatioRowsOf(stock_id), k \in 1..Len(RatioNames) :
          ratios[i][RatioNames[k]] = calculate_ratios(stocks[stock_id])[RatioNames[k]]

\* C26: however the steps of concurrent update_stock calls on one stock
\* interleave, once the calls have completed the stored ratios are the
\* calculation on the fundamentals stored at the end.
C26_NoStaleRatios ==
    (InFlight = {} /\ 1 \in DOMAIN stocks) => RatiosCurrent(1)

(***************************************************************************)
(* Statements about the creation of a stock                                *)
(***************************************************************************)
\* C27: when no create_stock or update_stock call is under way every stock
\* row has a stock_ratios row, and after a create_stock that returned
\* neither 200 nor the 400 of an existing ticker no stock holds the ticker
\* it asked for.
C27_CreateAllOrNothing ==
    InFlight = {} =>
        /\ \A i \in DOMAIN stocks : RatioRowsOf(i) # {}
        /\ ( /\ stock_resp # NoCall
             /\ stock_resp.op = "create_stock"
             /\ stock_resp.status_code \notin {200, 400} )
           => get_stock_by_ticker(stocks, stock_resp.ticker) = NoRow

(***************************************************************************)
(* Statements about the history page                                       *)
(***************************************************************************)
IsHistoryCall == last_read # NoCall /\ last_read.call = "get_user_predictions"

\* ids of the records a user owned when the history request ran
OwnedAtRead == { i \in 1..last_read.records_before :
                    predictions[i].user_id = last_read.user_id }

\* the page holds only the requester's records, newest first from offset
\* skip, at most limit of them, and total counts all the requester's records
HistoryPageIsOwn ==
    (IsHistoryCall /\ last_read.answered) =>
        LET rows == last_read.data.rows
            left == Cardinality(OwnedAtRead) - last_read.skip
        IN  /\ last_read.status_code = 200
            /\ last_read.data.total = Cardinality(OwnedAtRead)
            /\ Len(rows) = Min(last_read.limit, IF left < 0 THEN 0 ELSE left)
            /\ \A k \in 1..Len(rows) :
                  /\ rows[k].id \in OwnedAtRead
                  /\ Cardinality({ j \in OwnedAtRead : j > rows[k].id })
                         = last_read.skip + k - 1
                  /\ rows[k] = prediction_summary(predictions[rows[k].id])

\* a predict_stock step that stores a record leaves every page and total of
\* the users who do not own the new record as they were
OthersPredictsKeepHistory ==
    predictions' # predictions =>
        \A user_id \in UserIds \ {predictions'[Len(predictions')].user_id},
           skip \in 0..MaxRecords, limit \in 1..MaxRecords :
            get_user_predictions(predictions', user_id, skip, limit, NoFailure)
                = get_user_predictions(predictions, user_id, skip, limit, NoFailure)

\* C28: get_user_predictions(u, skip, limit) returns only records whose
\* user_id is u, newest first, at most limit of them starting at offset skip;
\* its total is the number of all records of u whatever skip and limit are;
\* predict requests of other users change neither the list nor the total
\* returned for u.
C28_HistoryIsOwnPage ==
    /\ []HistoryPageIsOwn
    /\ [][OthersPredictsKeepHistory]_vars

\* users 1 and 2 each own a record; user 1 asks for the first page and gets
\* the one record it owns with total 1
C28_Witness ==
    /\ IsHistoryCall
    /\ last_read.answered
    /\ last_read.records_before = 2
    /\ predictions[1].user_id # predictions[2].user_id
    /\ last_read.skip = 0
    /\ last_read.limit = 2
    /\ Len(last_read.data.rows) = 1
    /\ last_read.data.total = 1

(***************************************************************************)
(* Statements about the persistence of a prediction                        *)
(***************************************************************************)
\* the record a predict_stock call stored agrees with the response it gave
SavedAsAnswered ==
    LET row == last_predict.saved[1]
        data == last_predict.data
    IN  /\ data # NoData
        /\ data.prediction_id = row.id
        /\ row.id = last_predict.records_before + 1
        /\ row.model_1_prediction = data.model_1_valuation.prediction
        /\ row.model_1_confidence = data.model_1_valuation.confidence
        /\ row.model_2_prediction = data.model_2_health.prediction
        /\ row.model_2_confidence = data.model_2_health.confidence
        /\ row.model_3_prediction = data.model_3_growth.prediction
        /\ row.model_3_confidence = data.model_3_growth.confidence
        /\ row.final_recommendation = data.ensemble_prediction.final_recommendation
        /\ row.final_confidence = data.ensemble_prediction.confidence

\* C25: predict_stock stores exactly one record when it returns 200, the
\* prediction_id of the response being that record's id and the record holding
\* the labels, confidences and recommendation of the response; when it
\* returns 400, 404 or 500 it has stored no record.
C25_OneRecordPerOk ==
    (last_predict # NoCall /\ last_predict.kind = "return") =>
        /\ last_predict.status_code = 200
           => Len(last_predict.saved) = 1 /\ SavedAsAnswered
        /\ last_predict.status_code \in {400, 404, 500}
           => last_predict.saved = <<>>

(***************************************************************************)
(* Statements about the overall top features                               *)
(***************************************************************************)
OverallBuilt == explain_in # NoCall /\ explain_out # NoCall

\* model 1's list, then model 2's, then model 3's, as they were handed in
Attributions ==
    explain_in.heap.model_1 \o explain_in.heap.model_2 \o explain_in.heap.model_3

\* the entries of the concatenation that a stable sort by impact descending
\* puts before its entry i
SortsBefore(i) ==
    { j \in 1..Len(Attributions) :
        \/ Attributions[j].impact > Attributions[i].impact
        \/ Attributions[j].impact = Attributions[i].impact /\ j < i }

\* C23: overall_top_features is the first 5 entries of the concatenation
\* (model 1, model 2, model 3) of the three attribution lists after a stable
\* sort by impact descending: its length is min(5, number of attributions),
\* entries of equal impact keep the order of the concatenation, the feature
\* the ensemble reasoning names is its first entry, and the three per-model
\* lists in the record and in the response are the lists handed in.
C23_OverallTopFive ==
    OverallBuilt =>
        LET held == explain_out.prediction_data
            overall == held.overall_top_features
            reasoning == held.final_reasoning
        IN  /\ Len(overall) = Min(5, Len(Attributions))
            /\ \A k \in 1..Len(overall) :
                  \E i \in 1..Len(Attributions) :
                      /\ overall[k] = Attributions[i]
                      /\ Cardinality(SortsBefore(i)) = k - 1
            /\ IF overall = <<>>
               THEN \A s \in 1..Len(reasoning) : reasoning[s].feature = ""
               ELSE { reasoning[s].feature : s \in 1..Len(reasoning) } \ {""}
                        = {FEATURE_NAMES[overall[1].name]}
            /\ held.model_1_top_features = explain_in.heap.model_1
            /\ held.model_2_top_features = explain_in.heap.model_2
            /\ held.model_3_top_features = explain_in.heap.model_3
            /\ explain_out.response = held

\* nine attributions where model 3's first entry ties with model 1's first:
\* five are kept, model 1's entry first
C23_Witness ==
    /\ OverallBuilt
    /\ Len(Attributions) = 9
    /\ explain_in.heap.model_1[1].impact = explain_in.heap.model_3[1].impact
    /\ explain_in.heap.model_2[1].impact < explain_in.heap.model_1[1].impact
    /\ Len(explain_out.response.overall_top_features) = 5
    /\ explain_out.response.overall_top_features[1].name = "pe_ratio"
    /\ explain_out.response.overall_top_features[2].name = "revenue_cagr_2y"

(***************************************************************************)
(* Statements about concurrent predictions                                 *)
(***************************************************************************)
\* a predict_stock call answered with data
Predicted == last_predict # NoCall /\ last_predict.data # NoData

\* what the call answered comes from the rows of its own ticker, the
\* artifacts of the three keys and the estimators' answers to its vectors
OwnDataOnly ==
    LET stock == get_stock_by_ticker(stocks, last_predict.ticker)
        ratio_row == get_stock_ratios(ratios, stock.id)
        data == last_predict.data
        results == <<data.model_1_valuation, data.model_2_health, data.model_3_growth>>
        answer == last_predict.inference
    IN  /\ stock # NoRow
        /\ ratio_row # NoRow
        /\ last_predict.used[1].features = _prepare_model_1_features(stock).features
        /\ last_predict.used[2].features = _prepare_model_2_features(ratio_row).features
        /\ last_predict.used[3].features = _prepare_model_3_features(ratio_row).features
        /\ \A k \in 1..3 :
              LET entry == ModelEntry(ModelKeys[k])
              IN  /\ last_predict.used[k].artifact = entry.artifact
                  /\ results[k].prediction
                        = entry.classes[prediction_idx(entry, answer.pick[k]) + 1]
                  /\ results[k].confidence
                        = IF answer.proba[k] = Null THEN fallback_confidence
                          ELSE answer.proba[k][1]
        /\ \E vote \in _ensemble_voting(
                           results[1].prediction, results[2].prediction,
                           results[3].prediction, results[1].confidence,
                           results[2].confidence, results[3].confidence) :
              /\ data.ensemble_prediction.final_recommendation = vote.recommendation
              /\ data.ensemble_prediction.confidence = vote.confidence

\* C21: concurrent predict_stock calls leave every registry entry as it was,
\* and the labels, confidences and recommendation a call returns are those
\* of its own stock and ratio rows, whatever other calls are under way.
C21_InferenceReadOnly ==
    /\ [][models' = models]_vars
    /\ [](\A key \in RangeOf(ModelKeys) :
             key \in DOMAIN models /\ models[key] = ModelEntry(key))
    /\ [](Predicted => OwnDataOnly)

\* a call for ABC answered while a call for XYZ, started after it, is under way
C21_Witness ==
    /\ Predicted
    /\ last_predict.ticker = "ABC"
    /\ last_predict.status_code = 200
    /\ \E q \in Procs : /\ calls[q].op = "predict_stock"
                        /\ calls[q].ticker = "xyz"
                        /\ calls[q].seq = 2
    /\ Len(predictions) = 1

(***************************************************************************)
(* Statements about the deletion of a stock                                *)
(***************************************************************************)
\* a step in which a delete_stock call of the given kind ran from start to end
DeleteStep(op) ==
    /\ calls_started' = calls_started + 1
    /\ calls' = calls
    /\ stock_resp'.op = op

\* predict_stock on the ticker returns 200 and stores one record
PredictsOk(ticker) ==
    \A user_id \in UserIds, inference \in InferenceOutcomes :
        \A outcome \in predict_stock(stocks, ratios, predictions, models, ticker,
                                     user_id, inference, NoFailure) :
            outcome.status_code = 200 /\ Len(outcome.saved) = 1

\* a stock that was soft-deleted is still found by its ticker, with its
\* ratios, and predict_stock on it answers 200
SoftDeletedStays ==
    \A i \in DOMAIN stocks :
        (InFlight = {} /\ ~stocks[i].is_active) =>
            /\ get_stock_by_ticker(stocks, stocks[i].ticker) = stocks[i]
            /\ RatioRowsOf(i) # {}
            /\ PredictsOk(stocks[i].ticker)

\* a soft delete that returned 200 only cleared is_active
SoftDeleteOnlyFlags ==
    (DeleteStep("delete_stock") /\ stock_resp'.status_code = 200) =>
        /\ stocks' = [stocks EXCEPT ![stock_resp'.stock_id].is_active = FALSE]
        /\ ratios' = ratios

\* create_stock goes on to insert only a ticker that no stock holds
CreateNeedsFreeTicker ==
    (calls[1] = Idle /\ calls'[1] # Idle /\ calls'[1].op = "create_stock") =>
        \A i \in DOMAIN stocks : stocks[i].ticker # Upper(calls'[1].stock_data.ticker)

\* a hard delete of a stock that is there removes it and its ratio rows and
\* frees its ticker
HardDeleteRemoves ==
    (DeleteStep("hard_delete_stock") /\ stock_resp'.stock_id \in DOMAIN stocks) =>
        /\ stock_resp'.status_code = 200
        /\ stock_resp'.stock_id \notin DOMAIN stocks'
        /\ \A i \in DOMAIN ratios' : ratios'[i].stock_id # stock_resp'.stock_id
        /\ get_stock_by_ticker(stocks', stocks[stock_resp'.stock_id].ticker) = NoRow

\* C29: a soft delete only sets is_active to false and keeps the stock, its
\* ticker and its ratios: lookup by ticker still finds the stock, predict_stock
\* on it returns 200 and stores a record, and create_stock with its ticker
\* returns 400; a hard delete removes the stock and its ratio record and makes
\* the ticker available to create_stock again.
C29_SoftKeepsHardRemoves ==
    /\ []SoftDeletedStays
    /\ [][SoftDeleteOnlyFlags /\ CreateNeedsFreeTicker /\ HardDeleteRemoves]_vars

(***************************************************************************)
(* Statements about sessions                                               *)
(***************************************************************************)
\* validate_session returned a session and a user
Authenticated ==
    /\ last_auth # NoCall
    /\ last_auth.status_code = 200
    /\ last_auth.user # NoRow

\* C30: validate_session returns a user only for a session that was created,
\* at most 7 days before, that no successful logout_user has deleted and
\* whose owner no delete_user has deleted; the session and the user returned
\* are that session and its owner.
C30_SessionAuthenticatesWhileLive ==
    Authenticated =>
        LET id == last_auth.session_id
        IN  /\ id \in 1..Len(auth_log.issued)
            /\ now <= auth_log.issued[id].created_at + 7
            /\ id \notin auth_log.logged_out
            /\ auth_log.issued[id].user_mail \notin auth_log.deleted
            /\ last_auth.session.session_id = id
            /\ last_auth.user.email = auth_log.issued[id].user_mail

\* a session created on day 0, neither logged out nor its owner deleted, is
\* presented on day 8 and refused as expired
C30_Witness ==
    /\ last_auth # NoCall
    /\ last_auth.session_id \in 1..Len(auth_log.issued)
    /\ auth_log.issued[last_auth.session_id].created_at = 0
    /\ now = 8
    /\ last_auth.session_id \notin auth_log.logged_out
    /\ auth_log.deleted = {}
    /\ last_auth.status_code = 401

====
